---- MODULE Spec2Model ----
(***************************************************************************)
(* Content-aware image compression: the integral-image statistics, the     *)
(* adaptive partition tree (build, prune, render, count) and the quality   *)
(* mapping of ImageCompressor.                                             *)
(*                                                                         *)
(* Specifications, all over the same variables:                            *)
(*   Spec           construction, pruning, rendering and counting;         *)
(*   SpecStats      the region queries of ImageStatistics;                 *)
(*   SpecQuality    getConfigForQuality;                                   *)
(*   SpecCompress   one compressImage call;                                *)
(*   SpecParse      parseQuality on short argument strings;                *)
(*   SpecCLI        the batch loop of main;                                *)
(*   SpecConcurrent two threads initialising the static lookup tables;     *)
(*   SpecSplit      one findOptimalSplit or getSplitCandidates call;       *)
(*   SpecCopy       trees as heap objects: copy construction, assignment;  *)
(*   SpecBuild      buildTreeRecursive one call at a time.                 *)
(*                                                                         *)
(* Numbers.  The program computes in double.  The model computes in fixed  *)
(* point: saturation, luminance, alpha, colour distances and the pruning   *)
(* parameters in units of 1/Scale, hues in units of 1/HueUnit degree,      *)
(* cosines and sines in units of 1/TrigScale, entropies in units of        *)
(* 1/EntropyScale bit.  cos, sin and atan2 are computed by integer CORDIC  *)
(* iterations whose error is far below half a unit, so that values that    *)
(* are equal in real arithmetic are equal in the model (atan2(sin h, cos h)*)
(* is h for every hue of the grid).  Rounding errors of double arithmetic  *)
(* (about 1e-16) are not modelled.                                         *)
(*                                                                         *)
(* The repository holds two versions of the statistics and of the tree:    *)
(*   "main": src/src/statistics/ImageStatistics.cpp (flat arrays, trig     *)
(*           lookup tables) and src/src/core/AdaptiveImageTree.cpp         *)
(*           (exhaustive split search);                                    *)
(*   "alt":  src/unnamed/part_001 (nested vectors, std::cos/std::sin,      *)
(*           entropy early termination, sampled split search).             *)
(* The variable `variant` says which one built the tree.                   *)
(***************************************************************************)
EXTENDS Integers, Sequences, FiniteSets, TLC

VARIABLES
    variant,        \* "main" or "alt": which version of the code runs
    inputImage,     \* the PNG handed to the constructor (never modified)
    imageWidth_,    \* AdaptiveImageTree::imageWidth_
    imageHeight_,   \* AdaptiveImageTree::imageHeight_
    rootNode_,      \* AdaptiveImageTree::rootNode_ (nested TreeNode records)
    lastCall,       \* the last operation called on the tree and what it returned
    stats_,         \* the ImageStatistics object under query (its tables)
    statsQuery,     \* the last query on an ImageStatistics and what it returned
    qualityCall,    \* the last getConfigForQuality call and what it returned
    argc,           \* main: the argument count
    inputDirExists, \* main: std::filesystem::exists(inputDir)
    outputDirCreated, \* main: createOutputDirectory does not throw
    directory,      \* main: the PNG files of inputDir and what becomes of each
    pngFiles,       \* main: the result of findPngFiles
    cliPc,          \* main: the position of the run
    nextFile,       \* main: the index of the loop over pngFiles
    processed,      \* main: the counter of files compressed and saved
    errorsReported, \* main: the files whose error the inner catch printed
    exitCode,       \* main: the value returned
    lookupTablesInitialized_, \* ImageStatistics::lookupTablesInitialized_ (static)
    cosLookup_,     \* ImageStatistics::cosLookup_ (static)
    sinLookup_,     \* ImageStatistics::sinLookup_ (static)
    threadPc,       \* the position of each concurrent call
    threadI,        \* the loop index i of initializeLookupTables in each call
    threadEntry,    \* the table entry the pixel of each call's image needs
    threadCos,      \* what fastCos gave each call
    accesses,       \* the reads and writes of the static members so far
    heap,           \* the TreeNode objects alive, by address (0 is nullptr)
    trees,          \* the AdaptiveImageTree objects of a program that copies trees
    callStack,      \* buildTreeRecursive: the regions of the calls still to be made
    nodesMade       \* buildTreeRecursive: the nodes made so far, and how many calls

\* the state of the tree, the statistics and the compressor calls
treeVars == <<variant, inputImage, imageWidth_, imageHeight_, rootNode_, lastCall,
              stats_, statsQuery, qualityCall>>

\* the state of a run of main
cliVars == <<argc, inputDirExists, outputDirCreated, directory, pngFiles, cliPc,
             nextFile, processed, errorsReported, exitCode>>

\* the static members of ImageStatistics and the calls that share them
staticVars == <<lookupTablesInitialized_, cosLookup_, sinLookup_, threadPc, threadI,
                threadEntry, threadCos, accesses>>

\* the tree objects of a copying program and their nodes
heapVars == <<heap, trees>>

\* the progress of one construction
buildVars == <<callStack, nodesMade>>

vars == <<treeVars, cliVars, staticVars, heapVars, buildVars>>

-----------------------------------------------------------------------------
(* Bounds of the model *)

\* images have at most MaxPixels pixels (any shape W x H with W*H <= MaxPixels)
MaxPixels == 4

\* the quality scale [0, 1] is sampled in QualityGrid steps, and
\* QualityMargin steps beyond either end
QualityGrid == 100
QualityMargin == 10

-----------------------------------------------------------------------------
(* Fixed-point units standing for double *)

Scale == 1000
HueUnit == 100
TrigScale == 100000
EntropyScale == 1000000

Abs(v) == IF v < 0 THEN -v ELSE v
Max(a, b) == IF a >= b THEN a ELSE b
Min(a, b) == IF a <= b THEN a ELSE b

\* v / d rounded to the nearest integer, halves away from zero (d > 0)
RoundDiv(v, d) == IF v >= 0 THEN (v + d \div 2) \div d ELSE -((-v + d \div 2) \div d)

-----------------------------------------------------------------------------
(* <cmath>: cos, sin, atan2, log2, sqrt, pow on the fixed-point grid *)

CordicSteps == 24
\* atan(2^-i) in micro-degrees, i = 0 .. CordicSteps-1
CordicAtan == <<45000000, 26565051, 14036243, 7125016, 3576334, 1789911,
                895174, 447614, 223811, 111906, 55953, 27976, 13988, 6994,
                3497, 1749, 874, 437, 219, 109, 55, 27, 14, 7>>
TwoPow == <<1, 2, 4, 8, 16, 32, 64, 128, 256, 512, 1024, 2048, 4096, 8192,
            16384, 32768, 65536, 131072, 262144, 524288, 1048576, 2097152,
            4194304, 8388608>>
\* the CORDIC gain 0.6072529350 times TrigScale * CordicGuard
CordicGuard == 4096
CordicGain == 248730802
MicroPerHueUnit == 10000
HalfTurn == 180 * HueUnit
FullTurn == 360 * HueUnit

\* rotate (x, y) by z micro-degrees, |z| <= 90 degrees
RECURSIVE CordicRotate(_, _, _, _)
CordicRotate(x, y, z, i) ==
    IF i > CordicSteps THEN <<x, y>>
    ELSE IF z >= 0
         THEN CordicRotate(x - (y \div TwoPow[i]), y + (x \div TwoPow[i]),
                           z - CordicAtan[i], i + 1)
         ELSE CordicRotate(x + (y \div TwoPow[i]), y - (x \div TwoPow[i]),
                           z + CordicAtan[i], i + 1)

\* <<cos, sin>> of a hue given in hue units, in units of 1/TrigScale
CosSin(hue) ==
    LET h == hue % FullTurn
        r == IF h <= HalfTurn \div 2 THEN CordicRotate(CordicGain, 0, h * MicroPerHueUnit, 1)
             ELSE IF h <= HalfTurn + HalfTurn \div 2
                  THEN CordicRotate(-CordicGain, 0, (h - HalfTurn) * MicroPerHueUnit, 1)
                  ELSE CordicRotate(CordicGain, 0, (h - FullTurn) * MicroPerHueUnit, 1)
    IN  <<RoundDiv(r[1], CordicGuard), RoundDiv(r[2], CordicGuard)>>

Cos(hue) == CosSin(hue)[1]
Sin(hue) == CosSin(hue)[2]

\* the angle of (x, y), x > 0, in micro-degrees
RECURSIVE CordicVector(_, _, _, _)
CordicVector(x, y, z, i) ==
    IF i > CordicSteps THEN z
    ELSE IF y >= 0
         THEN CordicVector(x + (y \div TwoPow[i]), y - (x \div TwoPow[i]),
                           z + CordicAtan[i], i + 1)
         ELSE CordicVector(x - (y \div TwoPow[i]), y + (x \div TwoPow[i]),
                           z - CordicAtan[i], i + 1)

\* scale a vector up (atan2 does not depend on its length)
RECURSIVE Normalise(_, _)
Normalise(x, y) ==
    IF Max(Abs(x), Abs(y)) >= TwoPow[24] * 16 THEN <<x, y>>
    ELSE Normalise(2 * x, 2 * y)

\* std::atan2(y, x) * 180.0 / PI in hue units, in (-HalfTurn, HalfTurn]
Atan2Deg(y, x) ==
    IF x = 0 /\ y = 0 THEN 0
    ELSE IF x = 0 THEN (IF y > 0 THEN HalfTurn \div 2 ELSE -(HalfTurn \div 2))
    ELSE LET n == Normalise(x, y)
             z == IF x > 0 THEN CordicVector(n[1], n[2], 0, 1)
                  ELSE IF y >= 0
                       THEN CordicVector(-n[1], -n[2], 0, 1) + HalfTurn * MicroPerHueUnit
                       ELSE CordicVector(-n[1], -n[2], 0, 1) - HalfTurn * MicroPerHueUnit
         IN  RoundDiv(z, MicroPerHueUnit)

\* log2 of the primes, in units of 1/EntropyScale bit
Log2Prime(p) ==
    CASE p = 2 -> 1000000
      [] p = 3 -> 1584963
      [] p = 5 -> 2321928
      [] p = 7 -> 2807355
      [] p = 11 -> 3459432
      [] p = 13 -> 3700440
      [] p = 17 -> 4087463
      [] p = 19 -> 4247928
      [] p = 23 -> 4523562
      [] p = 29 -> 4857981
      [] p = 31 -> 4954196

\* std::log2(n) for an integer n >= 1: the sum over n's prime factors, so that
\* log2(a*b) = log2(a) + log2(b) holds exactly as it does in the reals
RECURSIVE Log2From(_, _)
Log2From(n, p) ==
    IF n = 1 THEN 0
    ELSE IF n % p = 0 THEN Log2Prime(p) + Log2From(n \div p, p)
    ELSE Log2From(n, p + 1)

Log2(n) == Log2From(n, 2)

\* floor of the square root
RECURSIVE SqrtBetween(_, _, _)
SqrtBetween(n, lo, hi) ==
    IF lo >= hi THEN lo
    ELSE LET mid == (lo + hi + 1) \div 2
         IN  IF mid * mid <= n THEN SqrtBetween(n, mid, hi)
             ELSE SqrtBetween(n, lo, mid - 1)

FloorSqrt(n) == SqrtBetween(n, 0, 46340)

\* the square root rounded up: for an integer t, sqrt(n) <= t iff CeilSqrt(n) <= t
CeilSqrt(n) == LET r == FloorSqrt(n) IN IF r * r = n THEN r ELSE r + 1

-----------------------------------------------------------------------------
(* HSLAPixel and PNG *)

HSLAPixel(h, s, l, a) == [hue |-> h, saturation |-> s, luminance |-> l, alpha |-> a]

\* HSLAPixel(): opaque white
DefaultPixel == HSLAPixel(0, 0, Scale, Scale)

\* the null pointer
Null == [isNull |-> TRUE]

\* PNG::getPixelCount
getPixelCount(image) == image.width_ * image.height_

\* PNG::isEmpty
isEmpty(image) == image.width_ = 0 \/ image.height_ = 0

\* PNG::isValidCoordinate
isValidCoordinate(image, x, y) ==
    x >= 0 /\ y >= 0 /\ x < image.width_ /\ y < image.height_ /\ ~isEmpty(image)

\* PNG::getPixel: the pixel at (x, y), row-major, or the null pointer
getPixel(image, x, y) ==
    IF ~isValidCoordinate(image, x, y) THEN Null
    ELSE image.imageData_[x + y * image.width_ + 1]

\* PNG::PNG(width, height): every pixel default-constructed
NewPNG(width, height) ==
    [width_ |-> width, height_ |-> height,
     imageData_ |-> [i \in 1..(width * height) |-> DefaultPixel]]

\* *image.getPixel(x, y) = colour
setPixel(image, x, y, colour) ==
    [image EXCEPT !.imageData_[x + y * image.width_ + 1] = colour]

-----------------------------------------------------------------------------
(* ImageStatistics *)

HUE_BINS == 36
Bins == 0..(HUE_BINS - 1)
BinWidth == 10 * HueUnit

Rectangle(ulX, ulY, lrX, lrY) == [upperLeft |-> <<ulX, ulY>>, lowerRight |-> <<lrX, lrY>>]

\* ImageStatistics::getIndex (flat arrays, 0-based)
getIndex(stats, x, y) == y * stats.imageWidth_ + x

\* ImageStatistics::getHistogramIndex (flat array, 0-based)
getHistogramIndex(stats, x, y, bin) == (y * stats.imageWidth_ + x) * HUE_BINS + bin

\* cosLookup_[i] and sinLookup_[i] as initializeLookupTables fills them
cosLookup(i) == Cos(i * HueUnit)
sinLookup(i) == Sin(i * HueUnit)

\* static_cast<int>(hue) % 360, made non-negative
lookupIndex(hue) ==
    LET index == (IF hue >= 0 THEN hue \div HueUnit ELSE -((-hue) \div HueUnit)) % 360
    IN  index

\* ImageStatistics::fastCos / fastSin
fastCos(hue) == cosLookup(lookupIndex(hue))
fastSin(hue) == sinLookup(lookupIndex(hue))

\* static_cast<int>(hue / 10.0) clamped to the last bin
hueBin(hue) == Min(hue \div BinWidth, HUE_BINS - 1)

\* the element of a cumulative table at (x, y): flat row-major arrays in the
\* main version, vector<vector<>> indexed [x][y] in the alt version
Cell(stats, table, x, y) ==
    IF stats.layout = "flat" THEN table[getIndex(stats, x, y) + 1]
    ELSE table[x + 1][y + 1]

HistCell(stats, x, y, bin) ==
    IF stats.layout = "flat"
    THEN stats.cumulativeHueHistogram_[getHistogramIndex(stats, x, y, bin) + 1]
    ELSE stats.cumulativeHueHistogram_[x + 1][y + 1][bin + 1]

\* one pass of the constructor's loop body for the pixel (x, y): the neighbours'
\* cumulative values (left + top - topLeft, or what exists of them) plus the
\* pixel's own contribution
CellSums(stats, x, y, hueX, hueY, pixel) ==
    LET from(table) ==
            IF x > 0 /\ y > 0
            THEN Cell(stats, table, x - 1, y) + Cell(stats, table, x, y - 1)
                 - Cell(stats, table, x - 1, y - 1)
            ELSE IF x > 0 THEN Cell(stats, table, x - 1, y)
            ELSE IF y > 0 THEN Cell(stats, table, x, y - 1)
            ELSE 0
    IN  [x |-> hueX + from(stats.cumulativeHueX_),
         y |-> hueY + from(stats.cumulativeHueY_),
         s |-> pixel.saturation + from(stats.cumulativeSaturation_),
         l |-> pixel.luminance + from(stats.cumulativeLuminance_)]

CellHistogram(stats, x, y, hueBinIndex) ==
    [bin \in Bins |->
        (IF x > 0 /\ y > 0
         THEN HistCell(stats, x - 1, y, bin) + HistCell(stats, x, y - 1, bin)
              - HistCell(stats, x - 1, y - 1, bin)
         ELSE IF x > 0 THEN HistCell(stats, x - 1, y, bin)
         ELSE IF y > 0 THEN HistCell(stats, x, y - 1, bin)
         ELSE 0)
        + (IF bin = hueBinIndex THEN 1 ELSE 0)]

\* main version: rows outside, columns inside; every array is flat and the
\* pixel's cell is the next one (getIndex(x, y) = k); trigonometry by lookup
RECURSIVE FillFlat(_, _, _)
FillFlat(stats, image, k) ==
    IF k >= stats.imageWidth_ * stats.imageHeight_ THEN stats
    ELSE LET x == k % stats.imageWidth_
             y == k \div stats.imageWidth_
             currentPixel == getPixel(image, x, y)
             currentHueX == (currentPixel.saturation * fastCos(currentPixel.hue)) \div Scale
             currentHueY == (currentPixel.saturation * fastSin(currentPixel.hue)) \div Scale
             c == CellSums(stats, x, y, currentHueX, currentHueY, currentPixel)
             h == CellHistogram(stats, x, y, hueBin(currentPixel.hue))
         IN  FillFlat([stats EXCEPT
                        !.cumulativeHueX_ = Append(@, c.x),
                        !.cumulativeHueY_ = Append(@, c.y),
                        !.cumulativeSaturation_ = Append(@, c.s),
                        !.cumulativeLuminance_ = Append(@, c.l),
                        !.cumulativeHueHistogram_ = @ \o [i \in 1..HUE_BINS |-> h[i - 1]]],
                      image, k + 1)

\* ImageStatistics::ImageStatistics, main version
ImageStatisticsMain(image) ==
    FillFlat([layout |-> "flat",
              imageWidth_ |-> image.width_, imageHeight_ |-> image.height_,
              cumulativeHueX_ |-> <<>>, cumulativeHueY_ |-> <<>>,
              cumulativeSaturation_ |-> <<>>, cumulativeLuminance_ |-> <<>>,
              cumulativeHueHistogram_ |-> <<>>],
             image, 0)

\* alt version: columns outside, rows inside; vector<vector<>> indexed [x][y];
\* std::cos and std::sin of the hue itself
RECURSIVE FillNested(_, _, _)
FillNested(stats, image, k) ==
    IF k >= stats.imageWidth_ * stats.imageHeight_ THEN stats
    ELSE LET x == k \div stats.imageHeight_
             y == k % stats.imageHeight_
             currentPixel == getPixel(image, x, y)
             cs == CosSin(currentPixel.hue)
             currentHueX == (currentPixel.saturation * cs[1]) \div Scale
             currentHueY == (currentPixel.saturation * cs[2]) \div Scale
             c == CellSums(stats, x, y, currentHueX, currentHueY, currentPixel)
             h == CellHistogram(stats, x, y, hueBin(currentPixel.hue))
         IN  FillNested([stats EXCEPT
                          !.cumulativeHueX_[x + 1][y + 1] = c.x,
                          !.cumulativeHueY_[x + 1][y + 1] = c.y,
                          !.cumulativeSaturation_[x + 1][y + 1] = c.s,
                          !.cumulativeLuminance_[x + 1][y + 1] = c.l,
                          !.cumulativeHueHistogram_[x + 1][y + 1] =
                                [i \in 1..HUE_BINS |-> h[i - 1]]],
                        image, k + 1)

\* ImageStatistics::ImageStatistics, alt version
ImageStatisticsAlt(image) ==
    LET zeros == [x \in 1..image.width_ |-> [y \in 1..image.height_ |-> 0]]
    IN  FillNested([layout |-> "nested",
                    imageWidth_ |-> image.width_, imageHeight_ |-> image.height_,
                    cumulativeHueX_ |-> zeros, cumulativeHueY_ |-> zeros,
                    cumulativeSaturation_ |-> zeros, cumulativeLuminance_ |-> zeros,
                    cumulativeHueHistogram_ |->
                        [x \in 1..image.width_ |-> [y \in 1..image.height_ |->
                            [i \in 1..HUE_BINS |-> 0]]]],
                   image, 0)

ImageStatistics(v, image) ==
    IF v = "main" THEN ImageStatisticsMain(image) ELSE ImageStatisticsAlt(image)

\* ImageStatistics::isValidRectangle
isValidRectangle(stats, region) ==
    /\ region.upperLeft[1] >= 0 /\ region.upperLeft[2] >= 0
    /\ region.lowerRight[1] < stats.imageWidth_
    /\ region.lowerRight[2] < stats.imageHeight_
    /\ region.upperLeft[1] <= region.lowerRight[1]
    /\ region.upperLeft[2] <= region.lowerRight[2]

\* ImageStatistics::getArea
getArea(region) ==
    LET width == region.lowerRight[1] - region.upperLeft[1] + 1
        height == region.lowerRight[2] - region.upperLeft[2] + 1
    IN  width * height

\* the rectangle sum of one cumulative table, by the four cases of the code
RegionSum(stats, table, region) ==
    LET ulX == region.upperLeft[1]
        ulY == region.upperLeft[2]
        lrX == region.lowerRight[1]
        lrY == region.lowerRight[2]
    IN  IF ulX = 0 /\ ulY = 0 THEN Cell(stats, table, lrX, lrY)
        ELSE IF ulX = 0
             THEN Cell(stats, table, lrX, lrY) - Cell(stats, table, lrX, ulY - 1)
        ELSE IF ulY = 0
             THEN Cell(stats, table, lrX, lrY) - Cell(stats, table, ulX - 1, lrY)
        ELSE Cell(stats, table, lrX, lrY) - Cell(stats, table, ulX - 1, lrY)
             - Cell(stats, table, lrX, ulY - 1) + Cell(stats, table, ulX - 1, ulY - 1)

\* ImageStatistics::getAverageColor.  atan2(a/n, b/n) = atan2(a, b) for n > 0, so
\* the hue is taken from the totals: dividing first would only drop digits of
\* the fixed-point numbers.
getAverageColor(stats, region) ==
    LET pixelCount == getArea(region)
        totalHueX == RegionSum(stats, stats.cumulativeHueX_, region)
        totalHueY == RegionSum(stats, stats.cumulativeHueY_, region)
        totalSaturation == RegionSum(stats, stats.cumulativeSaturation_, region)
        totalLuminance == RegionSum(stats, stats.cumulativeLuminance_, region)
        avgSaturation == RoundDiv(totalSaturation, pixelCount)
        avgLuminance == RoundDiv(totalLuminance, pixelCount)
        angle == Atan2Deg(totalHueY, totalHueX)
        avgHue == IF angle < 0 THEN angle + FullTurn ELSE angle
    IN  HSLAPixel(avgHue, avgSaturation, avgLuminance, Scale)

\* buildHueHistogram whose interior case leaves out the "+ topLeft" term
buildHueHistogramNoCorner(stats, region) ==
    LET ulX == region.upperLeft[1]
        ulY == region.upperLeft[2]
        lrX == region.lowerRight[1]
        lrY == region.lowerRight[2]
    IN  [bin \in Bins |->
            IF ulX = 0 /\ ulY = 0 THEN HistCell(stats, lrX, lrY, bin)
            ELSE IF ulX = 0
                 THEN HistCell(stats, lrX, lrY, bin) - HistCell(stats, lrX, ulY - 1, bin)
            ELSE IF ulY = 0
                 THEN HistCell(stats, lrX, lrY, bin) - HistCell(stats, ulX - 1, lrY, bin)
            ELSE HistCell(stats, lrX, lrY, bin) - HistCell(stats, ulX - 1, lrY, bin)
                 - HistCell(stats, lrX, ulY - 1, bin)]

\* ImageStatistics::buildHueHistogram: a function Bins -> count
buildHueHistogram(stats, region) ==
    LET ulX == region.upperLeft[1]
        ulY == region.upperLeft[2]
        lrX == region.lowerRight[1]
        lrY == region.lowerRight[2]
    IN  [bin \in Bins |->
            IF ulX = 0 /\ ulY = 0 THEN HistCell(stats, lrX, lrY, bin)
            ELSE IF ulX = 0
                 THEN HistCell(stats, lrX, lrY, bin) - HistCell(stats, lrX, ulY - 1, bin)
            ELSE IF ulY = 0
                 THEN HistCell(stats, lrX, lrY, bin) - HistCell(stats, ulX - 1, lrY, bin)
            ELSE HistCell(stats, lrX, lrY, bin) - HistCell(stats, ulX - 1, lrY, bin)
                 - HistCell(stats, lrX, ulY - 1, bin) + HistCell(stats, ulX - 1, ulY - 1, bin)]

\* the sum of f over the bins 0 .. n-1
RECURSIVE SumBins(_, _)
SumBins(f, n) == IF n = 0 THEN 0 ELSE f[n - 1] + SumBins(f, n - 1)

\* ImageStatistics::calculateEntropyFromDistribution: -sum p * log2(p) over the
\* bins with count > 0, p = count / totalArea
calculateEntropyFromDistribution(distribution, totalArea) ==
    IF totalArea <= 0 THEN 0
    ELSE LET term == [bin \in Bins |->
                        IF distribution[bin] > 0
                        THEN distribution[bin] * (Log2(totalArea) - Log2(distribution[bin]))
                        ELSE 0]
         IN  SumBins(term, HUE_BINS) \div totalArea

\* ImageStatistics::calculateEntropy
calculateEntropy(stats, region) ==
    calculateEntropyFromDistribution(buildHueHistogram(stats, region), getArea(region))

-----------------------------------------------------------------------------
(* AdaptiveImageTree: construction *)

TreeNode(region, averageColor) ==
    [region |-> region, averageColor |-> averageColor,
     leftChild |-> Null, rightChild |-> Null]

isLeaf(node) == node.leftChild = Null /\ node.rightChild = Null

\* std::numeric_limits<double>::max()
DoubleMax == 2147483647

\* the two regions a horizontal cut after row splitY makes of a region
HorizontalCut(region, splitY) ==
    <<Rectangle(region.upperLeft[1], region.upperLeft[2], region.lowerRight[1], splitY),
      Rectangle(region.upperLeft[1], splitY + 1, region.lowerRight[1], region.lowerRight[2])>>

\* the two regions a vertical cut after column splitX makes of a region
VerticalCut(region, splitX) ==
    <<Rectangle(region.upperLeft[1], region.upperLeft[2], splitX, region.lowerRight[2]),
      Rectangle(splitX + 1, region.upperLeft[2], region.lowerRight[1], region.lowerRight[2])>>

\* the weighted entropy of the two parts of a cut
weightedEntropy(stats, parts, totalArea) ==
    (calculateEntropy(stats, parts[1]) * getArea(parts[1])
     + calculateEntropy(stats, parts[2]) * getArea(parts[2])) \div totalArea

\* the loop of findOptimalSplit settling for the first cut it tries
TryCutsFirst(stats, cuts, totalArea, best, i) ==
    IF Len(cuts) = 0 THEN best
    ELSE [bestWeightedEntropy |-> weightedEntropy(stats, cuts[1], totalArea),
          bestLeftRegion |-> cuts[1][1], bestRightRegion |-> cuts[1][2]]

\* the loop body of findOptimalSplit over a sequence of cuts, from cut i on:
\* a cut replaces the best one so far only if it is strictly better
RECURSIVE TryCuts(_, _, _, _, _)
TryCuts(stats, cuts, totalArea, best, i) ==
    IF i > Len(cuts) THEN best
    ELSE LET w == weightedEntropy(stats, cuts[i], totalArea)
         IN  TryCuts(stats, cuts, totalArea,
                     IF w < best.bestWeightedEntropy
                     THEN [bestWeightedEntropy |-> w, bestLeftRegion |-> cuts[i][1],
                           bestRightRegion |-> cuts[i][2]]
                     ELSE best,
                     i + 1)

\* the positions start .. end-1 in ascending order
Range(start, end) == [i \in 1..Max(end - start, 0) |-> start + i - 1]

\* the cuts findOptimalSplit tries, in its order, given the positions it tries on
\* each axis: the horizontal ones, then the vertical ones
CutsOf(region, rows, columns) ==
    LET regionWidth == region.lowerRight[1] - region.upperLeft[1] + 1
        regionHeight == region.lowerRight[2] - region.upperLeft[2] + 1
    IN  (IF regionHeight > 1
         THEN [i \in 1..Len(rows) |-> HorizontalCut(region, rows[i])] ELSE <<>>)
        \o
        (IF regionWidth > 1
         THEN [i \in 1..Len(columns) |-> VerticalCut(region, columns[i])] ELSE <<>>)

NoSplit ==
    [bestWeightedEntropy |-> DoubleMax,
     bestLeftRegion |-> Rectangle(0, 0, 0, 0), bestRightRegion |-> Rectangle(0, 0, 0, 0)]

\* AdaptiveImageTree::findOptimalSplit, main version: every cut is tried
findOptimalSplitMain(stats, region) ==
    LET cuts == CutsOf(region,
                       Range(region.upperLeft[2], region.lowerRight[2]),
                       Range(region.upperLeft[1], region.lowerRight[1]))
        best == TryCuts(stats, cuts, getArea(region), NoSplit, 1)
    IN  <<best.bestLeftRegion, best.bestRightRegion>>

\* the "random positions" loop of getSplitCandidates: i = start + step, then
\* i += step while i < end; a position is added while fewer than
\* maxCandidates are there
RECURSIVE StepCandidates(_, _, _, _, _)
StepCandidates(candidates, i, end, step, maxCandidates) ==
    IF i >= end THEN candidates
    ELSE StepCandidates(IF Len(candidates) < maxCandidates
                        THEN Append(candidates, i) ELSE candidates,
                        i + step, end, step, maxCandidates)

\* getSplitCandidates whose step loop adds every position it visits
getSplitCandidatesUncapped(start, end, maxCandidates) ==
    IF end - start <= maxCandidates THEN Range(start, end)
    ELSE StepCandidates(<<start + (end - start) \div 4,
                          start + (end - start) \div 3,
                          start + (end - start) \div 2,
                          start + (2 * (end - start)) \div 3,
                          start + (3 * (end - start)) \div 4>>,
                        start + Max(1, (end - start) \div 10), end,
                        Max(1, (end - start) \div 10), end - start + 5)

\* the lambda getSplitCandidates of findOptimalSplit, alt version
getSplitCandidates(start, end, maxCandidates) ==
    IF end - start <= maxCandidates THEN Range(start, end)
    ELSE StepCandidates(<<start + (end - start) \div 4,
                          start + (end - start) \div 3,
                          start + (end - start) \div 2,
                          start + (2 * (end - start)) \div 3,
                          start + (3 * (end - start)) \div 4>>,
                        start + Max(1, (end - start) \div 10), end,
                        Max(1, (end - start) \div 10), maxCandidates)

MaxCandidates == 8

\* AdaptiveImageTree::findOptimalSplit, alt version: sampled cuts
findOptimalSplitAlt(stats, region) ==
    LET cuts == CutsOf(region,
                       getSplitCandidates(region.upperLeft[2], region.lowerRight[2],
                                          MaxCandidates),
                       getSplitCandidates(region.upperLeft[1], region.lowerRight[1],
                                          MaxCandidates))
        best == TryCuts(stats, cuts, getArea(region), NoSplit, 1)
    IN  <<best.bestLeftRegion, best.bestRightRegion>>

findOptimalSplit(v, stats, region) ==
    IF v = "main" THEN findOptimalSplitMain(stats, region)
    ELSE findOptimalSplitAlt(stats, region)

\* the entropy under which the alt version does not split a region: 0.1 bit
EarlyTermination == EntropyScale \div 10

\* whether buildTreeRecursive returns the node of a region without splitting it:
\* a single pixel; in the alt version also a region of entropy < 0.1
stopsAt(v, stats, region) ==
    \/ region.upperLeft = region.lowerRight
    \/ v = "alt" /\ calculateEntropy(stats, region) < EarlyTermination

\* AdaptiveImageTree::buildTreeRecursive
RECURSIVE buildTreeRecursive(_, _, _)
buildTreeRecursive(v, stats, region) ==
    LET currentNode == TreeNode(region, getAverageColor(stats, region))
    IN  IF stopsAt(v, stats, region) THEN currentNode
        ELSE LET splitResult == findOptimalSplit(v, stats, region)
             IN  [currentNode EXCEPT
                    !.leftChild = buildTreeRecursive(v, stats, splitResult[1]),
                    !.rightChild = buildTreeRecursive(v, stats, splitResult[2])]

\* AdaptiveImageTree::AdaptiveImageTree(const PNG&): the root node
buildTree(v, image) ==
    buildTreeRecursive(v, ImageStatistics(v, image),
                       Rectangle(0, 0, image.width_ - 1, image.height_ - 1))

-----------------------------------------------------------------------------
(* AdaptiveImageTree: render, count, prune *)

\* paintLeaf whose loops stop one short of the lower right corner (< for <=)
paintLeafExclusive(out, node) ==
    LET w == out.image.width_
        hit(i) == /\ node.region.upperLeft[1] <= (i - 1) % w
                  /\ (i - 1) % w < node.region.lowerRight[1]
                  /\ node.region.upperLeft[2] <= (i - 1) \div w
                  /\ (i - 1) \div w < node.region.lowerRight[2]
    IN  [image |-> [out.image EXCEPT !.imageData_ =
                        [i \in DOMAIN out.image.imageData_ |->
                            IF hit(i) THEN node.averageColor ELSE out.image.imageData_[i]]],
         writes |-> [i \in DOMAIN out.writes |->
                        IF hit(i) THEN out.writes[i] + 1 ELSE out.writes[i]]]

\* the two loops of renderNodeRecursive at a leaf: every pixel (x, y) with
\* upperLeft <= (x, y) <= lowerRight is assigned the leaf's colour through
\* getPixel (index x + y * width); `writes` counts the assignments
paintLeaf(out, node) ==
    LET w == out.image.width_
        hit(i) == /\ node.region.upperLeft[1] <= (i - 1) % w
                  /\ (i - 1) % w <= node.region.lowerRight[1]
                  /\ node.region.upperLeft[2] <= (i - 1) \div w
                  /\ (i - 1) \div w <= node.region.lowerRight[2]
    IN  [image |-> [out.image EXCEPT !.imageData_ =
                        [i \in DOMAIN out.image.imageData_ |->
                            IF hit(i) THEN node.averageColor ELSE out.image.imageData_[i]]],
         writes |-> [i \in DOMAIN out.writes |->
                        IF hit(i) THEN out.writes[i] + 1 ELSE out.writes[i]]]

\* AdaptiveImageTree::renderNodeRecursive
RECURSIVE renderNodeRecursive(_, _)
renderNodeRecursive(out, node) ==
    IF node = Null THEN out
    ELSE IF isLeaf(node) THEN paintLeaf(out, node)
    ELSE renderNodeRecursive(renderNodeRecursive(out, node.leftChild), node.rightChild)

\* AdaptiveImageTree::renderToImage
renderToImage(width, height, root) ==
    renderNodeRecursive([image |-> NewPNG(width, height),
                         writes |-> [i \in 1..(width * height) |-> 0]], root)

\* countLeafNodesRecursive with the two branches subtracted instead of added
RECURSIVE countLeafNodesSubtract(_)
countLeafNodesSubtract(node) ==
    IF node = Null THEN 0
    ELSE IF isLeaf(node) THEN 1
    ELSE countLeafNodesSubtract(node.leftChild) - countLeafNodesSubtract(node.rightChild)

\* AdaptiveImageTree::countLeafNodesRecursive
RECURSIVE countLeafNodesRecursive(_)
countLeafNodesRecursive(node) ==
    IF node = Null THEN 0
    ELSE IF isLeaf(node) THEN 1
    ELSE countLeafNodesRecursive(node.leftChild) + countLeafNodesRecursive(node.rightChild)

\* getCompressionRatio with the quotient upside down
getCompressionRatioInverted(width, height, root) ==
    LET totalPixels == width * height
        leafNodes == countLeafNodesRecursive(root)
    IN  IF totalPixels = 0 THEN <<0, 1>> ELSE <<totalPixels, leafNodes>>

\* AdaptiveImageTree::getCompressionRatio: leafNodes / totalPixels as a fraction
getCompressionRatio(width, height, root) ==
    LET totalPixels == width * height
        leafNodes == countLeafNodesRecursive(root)
    IN  IF totalPixels = 0 THEN <<0, 1>> ELSE <<leafNodes, totalPixels>>

PruningConfig(similarity, tolerance) ==
    [minimumSimilarityPercentage |-> similarity, colorToleranceThreshold |-> tolerance]

\* colour distances are in units of 1/(DistancePerScale * Scale): in this unit
\* hueDiff / 180 is the hue difference in hue units, an integer
DistancePerScale == HalfTurn \div Scale

\* calculateColorDistance without the hue term
calculateColorDistanceNoHue(color1, color2) ==
    LET satDiff == DistancePerScale * (color1.saturation - color2.saturation)
        lumDiff == DistancePerScale * (color1.luminance - color2.luminance)
    IN  CeilSqrt(satDiff * satDiff + lumDiff * lumDiff)

\* AdaptiveImageTree::calculateColorDistance, rounded up to the unit
calculateColorDistance(color1, color2) ==
    LET d == Abs(color1.hue - color2.hue)
        hueDiff == IF d > HalfTurn THEN FullTurn - d ELSE d
        satDiff == DistancePerScale * (color1.saturation - color2.saturation)
        lumDiff == DistancePerScale * (color1.luminance - color2.luminance)
    IN  CeilSqrt(hueDiff * hueDiff + satDiff * satDiff + lumDiff * lumDiff)

\* AdaptiveImageTree::countSimilarPixels: <<similar pixels, total pixels>> of
\* the leaves under a node
RECURSIVE countSimilarPixels(_, _, _)
countSimilarPixels(node, referenceColor, tolerance) ==
    IF node = Null THEN <<0, 0>>
    ELSE IF isLeaf(node)
    THEN LET regionArea == getArea(node.region)
             colorDistance == calculateColorDistance(node.averageColor, referenceColor)
         IN  IF colorDistance <= DistancePerScale * tolerance
             THEN <<regionArea, regionArea>> ELSE <<0, regionArea>>
    ELSE LET l == countSimilarPixels(node.leftChild, referenceColor, tolerance)
             r == countSimilarPixels(node.rightChild, referenceColor, tolerance)
         IN  <<l[1] + r[1], l[2] + r[2]>>

\* shouldPruneSubtree that asks for more than the percentage (> for >=)
shouldPruneSubtreeStrict(node, config) ==
    IF node = Null \/ isLeaf(node) THEN FALSE
    ELSE LET c == countSimilarPixels(node, node.averageColor, config.colorToleranceThreshold)
         IN  IF c[2] = 0 THEN FALSE
             ELSE c[1] * Scale > config.minimumSimilarityPercentage * c[2]

\* shouldPruneSubtree that never merges
shouldPruneSubtreeNever(node, config) == FALSE

\* AdaptiveImageTree::shouldPruneSubtree
shouldPruneSubtree(node, config) ==
    IF node = Null \/ isLeaf(node) THEN FALSE
    ELSE LET c == countSimilarPixels(node, node.averageColor, config.colorToleranceThreshold)
             similarPixels == c[1]
             totalPixels == c[2]
         IN  IF totalPixels = 0 THEN FALSE
             ELSE similarPixels * Scale >= config.minimumSimilarityPercentage * totalPixels

\* pruneNodeRecursive that gives a merged node the colour of its left child
RECURSIVE pruneNodeRecolour(_, _)
pruneNodeRecolour(node, config) ==
    IF node = Null THEN node
    ELSE IF isLeaf(node) THEN node
    ELSE LET pruned == [node EXCEPT
                          !.leftChild = pruneNodeRecolour(node.leftChild, config),
                          !.rightChild = pruneNodeRecolour(node.rightChild, config)]
         IN  IF shouldPruneSubtree(pruned, config)
             THEN TreeNode(node.region, pruned.leftChild.averageColor)
             ELSE pruned

\* pruneNodeRecursive that decides only about the nodes whose children were
\* leaves when the call began
RECURSIVE pruneNodeLeafPairs(_, _)
pruneNodeLeafPairs(node, config) ==
    IF node = Null THEN node
    ELSE IF isLeaf(node) THEN node
    ELSE IF isLeaf(node.leftChild) /\ isLeaf(node.rightChild)
    THEN IF shouldPruneSubtree(node, config)
         THEN [node EXCEPT !.leftChild = Null, !.rightChild = Null]
         ELSE node
    ELSE [node EXCEPT
            !.leftChild = pruneNodeLeafPairs(node.leftChild, config),
            !.rightChild = pruneNodeLeafPairs(node.rightChild, config)]

\* pruneNodeRecursive that resets the left child only when it merges a branch
RECURSIVE pruneNodeKeepRight(_, _)
pruneNodeKeepRight(node, config) ==
    IF node = Null THEN node
    ELSE IF isLeaf(node) THEN node
    ELSE LET pruned == [node EXCEPT
                          !.leftChild = pruneNodeKeepRight(node.leftChild, config),
                          !.rightChild = pruneNodeKeepRight(node.rightChild, config)]
         IN  IF shouldPruneSubtree(pruned, config)
             THEN [pruned EXCEPT !.leftChild = Null]
             ELSE pruned

\* pruneNodeRecursive that stores each pruned child in the other child's place
RECURSIVE pruneNodeSwapped(_, _)
pruneNodeSwapped(node, config) ==
    IF node = Null THEN node
    ELSE IF isLeaf(node) THEN node
    ELSE LET pruned == [node EXCEPT
                          !.leftChild = pruneNodeSwapped(node.rightChild, config),
                          !.rightChild = pruneNodeSwapped(node.leftChild, config)]
         IN  IF shouldPruneSubtree(pruned, config)
             THEN [pruned EXCEPT !.leftChild = Null, !.rightChild = Null]
             ELSE pruned

\* AdaptiveImageTree::pruneNodeRecursive
RECURSIVE pruneNodeRecursive(_, _)
pruneNodeRecursive(node, config) ==
    IF node = Null THEN node
    ELSE IF isLeaf(node) THEN node
    ELSE LET pruned == [node EXCEPT
                          !.leftChild = pruneNodeRecursive(node.leftChild, config),
                          !.rightChild = pruneNodeRecursive(node.rightChild, config)]
         IN  IF shouldPruneSubtree(pruned, config)
             THEN [pruned EXCEPT !.leftChild = Null, !.rightChild = Null]
             ELSE pruned

\* AdaptiveImageTree::pruneTree
pruneTree(root, config) ==
    IF root # Null THEN pruneNodeRecursive(root, config) ELSE root

-----------------------------------------------------------------------------
(* ImageCompressor: the quality mapping *)

\* std::pow(q, 1.5) = q * sqrt(q), q in units of 1/Scale
Pow15(q) == (q * FloorSqrt(q * Scale)) \div Scale

\* std::pow(q, 2.0)
Pow2(q) == (q * q) \div Scale

\* 0.85, 0.145, 0.30 and 0.005 in units of 1/Scale
SimilarityBase == (85 * Scale) \div 100
SimilaritySpan == (145 * Scale) \div 1000
ToleranceBase == (30 * Scale) \div 100
ToleranceFloor == (5 * Scale) \div 1000

\* getConfigForQuality that lets scores up to 1.1 through
getConfigForQualityWide(q) ==
    LET qualityScore == Max(0, Min(Scale + Scale \div 10, q))
        similarity == SimilarityBase + (SimilaritySpan * Pow15(qualityScore)) \div Scale
        tolerance == (ToleranceBase * Pow2(Scale - qualityScore)) \div Scale
    IN  PruningConfig(similarity, Max(tolerance, ToleranceFloor))

\* getConfigForQuality without the lower limit of the tolerance
getConfigForQualityNoFloor(q) ==
    LET qualityScore == Max(0, Min(Scale, q))
        similarity == SimilarityBase + (SimilaritySpan * Pow15(qualityScore)) \div Scale
        tolerance == (ToleranceBase * Pow2(Scale - qualityScore)) \div Scale
    IN  PruningConfig(similarity, tolerance)

\* getConfigForQuality whose tolerance grows with the square of the score
getConfigForQualityRising(q) ==
    LET qualityScore == Max(0, Min(Scale, q))
        similarity == SimilarityBase + (SimilaritySpan * Pow15(qualityScore)) \div Scale
        tolerance == (ToleranceBase * Pow2(qualityScore)) \div Scale
    IN  PruningConfig(similarity, Max(tolerance, ToleranceFloor))

\* ImageCompressor::getConfigForQuality(double)
getConfigForQuality(q) ==
    LET qualityScore == Max(0, Min(Scale, q))
        similarity == SimilarityBase + (SimilaritySpan * Pow15(qualityScore)) \div Scale
        tolerance == (ToleranceBase * Pow2(Scale - qualityScore)) \div Scale
    IN  PruningConfig(similarity, Max(tolerance, ToleranceFloor))

\* enum class CompressionQuality
CompressionQuality ==
    {"HIGHEST_QUALITY", "HIGH_QUALITY", "MEDIUM_QUALITY", "LOW_QUALITY", "LOWEST_QUALITY"}

\* ImageCompressor::getConfigForQuality(CompressionQuality)
getConfigForQualityLevel(quality) ==
    CASE quality = "HIGHEST_QUALITY" -> PruningConfig((99 * Scale) \div 100, (25 * Scale) \div 1000)
      [] quality = "HIGH_QUALITY" -> PruningConfig((99 * Scale) \div 100, (5 * Scale) \div 100)
      [] quality = "MEDIUM_QUALITY" -> PruningConfig((99 * Scale) \div 100, Scale \div 10)
      [] quality = "LOW_QUALITY" -> PruningConfig((95 * Scale) \div 100, (15 * Scale) \div 100)
      [] quality = "LOWEST_QUALITY" -> PruningConfig((90 * Scale) \div 100, Scale \div 5)
      [] OTHER -> PruningConfig((99 * Scale) \div 100, Scale \div 10)

-----------------------------------------------------------------------------
(* Inputs *)

\* pixels as rgbToHsla makes them (hue 0 when the saturation is 0): red
\* (255,0,0), a rose (255,0,127) of hue 330.12 degrees, a translucent mid grey
Red == HSLAPixel(0, Scale, Scale \div 2, Scale)
Rose == HSLAPixel(330 * HueUnit + 12, Scale, Scale \div 2, Scale)
Grey == HSLAPixel(0, 0, Scale \div 2 + 2, Scale \div 2)
Palette == {Red, Rose, Grey}

\* the shapes W x H of the non-empty images of at most MaxPixels pixels
Shapes == {wh \in (1..MaxPixels) \X (1..MaxPixels) : wh[1] * wh[2] <= MaxPixels}

\* every image of such a shape with pixels of a palette
ImagesOf(palette) ==
    UNION {{[width_ |-> wh[1], height_ |-> wh[2], imageData_ |-> d] :
               d \in [1..(wh[1] * wh[2]) -> palette]} : wh \in Shapes}

\* the images trees are built from
Images == ImagesOf(Palette)

\* the images statistics are queried on: Red falls into the same histogram bin
\* as Grey, so two colours give every histogram the three give
StatImages == ImagesOf({Rose, Grey})

Variants == {"main", "alt"}

\* AdaptiveImageTree::AdaptiveImageTree(const PNG&) for the images above: the
\* tree of each image, built once
\* a strip of eight pixels: a dark one, a light one and six darker ones of
\* another hue
DipStrip ==
    LET dark == HSLAPixel(9 * HueUnit, Scale \div 2, (3 * Scale) \div 10, Scale)
        light == HSLAPixel(11 * HueUnit, Scale \div 2, (86 * Scale) \div 100, Scale)
        rest == HSLAPixel(21 * HueUnit, Scale \div 2, Scale \div 10, Scale)
    IN  [width_ |-> 8, height_ |-> 1,
         imageData_ |-> <<dark, light, rest, rest, rest, rest, rest, rest>>]

\* 4 x 4, rows 0-1 pure red and rows 2-3 pure blue
Blue == HSLAPixel(240 * HueUnit, Scale, Scale \div 2, Scale)
RedBlueBands ==
    [width_ |-> 4, height_ |-> 4, imageData_ |-> [i \in 1..16 |-> IF i <= 8 THEN Red ELSE Blue]]

\* 1 x 10, row 0 pure red and rows 1-9 pure blue
TallBands ==
    [width_ |-> 1, height_ |-> 10, imageData_ |-> [i \in 1..10 |-> IF i <= 1 THEN Red ELSE Blue]]

\* images beyond the enumerated ones that the compressor is run on
LargerImages == {DipStrip, RedBlueBands, TallBands}

\* the tree the constructor builds for each input
builtTree == [v \in Variants, image \in Images \cup LargerImages |-> buildTree(v, image)]

\* the configurations pruneTree is called with: always prune, prune on exact
\* matches only, and the two ends and the middle of the quality scale
PruneConfigs ==
    {PruningConfig(0, 0), PruningConfig(Scale, 0),
     getConfigForQuality(0), getConfigForQuality(Scale \div 2), getConfigForQuality(Scale)}

NoCall == [op |-> "none"]

-----------------------------------------------------------------------------
(* ImageCompressor: the compression pipeline *)

\* PNG::PNG(): the image of no pixels
EmptyPNG == [width_ |-> 0, height_ |-> 0, imageData_ |-> <<>>]

\* PNG::PNG(width, height) throws std::invalid_argument
PNGThrows(width, height) == width = 0 \/ height = 0

\* what getAverageColor returns for a rectangle outside the tables: the read
\* is out of bounds and the sums are divided by a pixelCount of 0, so the
\* colour is whatever the build makes of it (the alpha is the literal 1.0)
GarbageColors == {DefaultPixel, HSLAPixel(0, 0, 0, Scale)}

\* the root rectangle of the image of no pixels: (0, 0, -1, -1)
EmptyRegion == Rectangle(0, 0, 0 - 1, 0 - 1)

\* AdaptiveImageTree::AdaptiveImageTree(const PNG&) with its outcomes.  For an
\* image with pixels there is one: the tree.  For the empty image the first
\* getAverageColor reads the tables out of bounds (the asserts are compiled
\* out): the process may crash; if it does not, upperLeft # lowerRight, so
\*  - "alt": calculateEntropy is 0.0 (area 0) < 0.1 and the root is a leaf;
\*  - "main": findOptimalSplit tries no cut (width and height are 0) and
\*    returns its initial pair of rectangles (0,0,0,0), and each child is a
\*    single-pixel leaf, its colour read out of bounds as well.
buildTreeOutcomes(v, image) ==
    IF ~isEmpty(image)
    THEN {[crashed |-> FALSE, root |-> builtTree[v, image]]}
    ELSE {[crashed |-> TRUE, root |-> Null]}
         \cup (IF v = "alt"
               THEN {[crashed |-> FALSE, root |-> TreeNode(EmptyRegion, c)] :
                        c \in GarbageColors}
               ELSE {[crashed |-> FALSE,
                      root |-> [TreeNode(EmptyRegion, c[1]) EXCEPT
                                   !.leftChild = TreeNode(NoSplit.bestLeftRegion, c[2]),
                                   !.rightChild = TreeNode(NoSplit.bestRightRegion, c[3])]] :
                        c \in GarbageColors \X GarbageColors \X GarbageColors})

\* struct CompressionResult (the processing time is not modelled)
CompressionResult(image, ratio, origPixels, regions) ==
    [compressedImage |-> image, compressionRatio |-> ratio,
     originalPixels |-> origPixels, compressedRegions |-> regions]

\* ImageCompressor::performCompression with its outcomes: the process crashed
\* in the constructor, renderToImage threw (PNG(0, 0)), or a result returned.
\* `built` is the tree as constructed and `tree` the tree as pruned.
performCompression(v, image, config) ==
    {IF b.crashed
     THEN [outcome |-> "crashed"]
     ELSE LET width == image.width_
              height == image.height_
              pruned == pruneTree(b.root, config)
          IN  IF PNGThrows(width, height)
              THEN [outcome |-> "threw", built |-> b.root, tree |-> pruned]
              ELSE [outcome |-> "returned", built |-> b.root, tree |-> pruned,
                    result |-> CompressionResult(
                                  renderToImage(width, height, pruned).image,
                                  getCompressionRatio(width, height, pruned),
                                  width * height,
                                  countLeafNodesRecursive(pruned))] :
        b \in buildTreeOutcomes(v, image)}

\* no tree, no statistics and no call yet
TreeIdle ==
    /\ variant = "main"
    /\ inputImage = NewPNG(1, 1)
    /\ imageWidth_ = 0
    /\ imageHeight_ = 0
    /\ rootNode_ = Null
    /\ lastCall = NoCall
    /\ stats_ = Null
    /\ statsQuery = NoCall
    /\ qualityCall = NoCall

\* main is not running
CliIdle ==
    /\ argc = 0
    /\ inputDirExists = FALSE
    /\ outputDirCreated = FALSE
    /\ directory = <<>>
    /\ pngFiles = <<>>
    /\ cliPc = "none"
    /\ nextFile = 0
    /\ processed = 0
    /\ errorsReported = <<>>
    /\ exitCode = 0

\* the static tables are left alone: no concurrent calls
StaticsIdle ==
    /\ lookupTablesInitialized_ = FALSE
    /\ cosLookup_ = <<>>
    /\ sinLookup_ = <<>>
    /\ threadPc = <<>>
    /\ threadI = <<>>
    /\ threadEntry = <<>>
    /\ threadCos = <<>>
    /\ accesses = {}

\* no program that copies trees is running
HeapIdle ==
    /\ heap = <<>>
    /\ trees = <<>>

\* no construction is under way
BuildIdle ==
    /\ callStack = <<>>
    /\ nodesMade = <<>>

-----------------------------------------------------------------------------
(* The tree: construction, then any sequence of its public operations *)

Init ==
    /\ variant \in Variants
    /\ inputImage \in Images
    /\ imageWidth_ = inputImage.width_
    /\ imageHeight_ = inputImage.height_
    /\ rootNode_ = builtTree[variant, inputImage]
    /\ lastCall = [op |-> "construct"]
    /\ stats_ = Null
    /\ statsQuery = NoCall
    /\ qualityCall = NoCall
    /\ CliIdle
    /\ HeapIdle
    /\ BuildIdle
    /\ StaticsIdle

\* tree.pruneTree(config)
PruneTree(config) ==
    /\ rootNode_' = pruneTree(rootNode_, config)
    /\ lastCall' = [op |-> "pruneTree",
                    leavesBefore |-> countLeafNodesRecursive(rootNode_)]
    /\ UNCHANGED <<variant, inputImage, imageWidth_, imageHeight_,
                   stats_, statsQuery, qualityCall>>
    /\ UNCHANGED <<cliVars, staticVars, heapVars, buildVars>>

\* tree.renderToImage()
RenderToImage ==
    /\ LET out == renderToImage(imageWidth_, imageHeight_, rootNode_)
       IN  lastCall' = [op |-> "renderToImage", result |-> out.image, writes |-> out.writes]
    /\ UNCHANGED <<variant, inputImage, imageWidth_, imageHeight_, rootNode_,
                   stats_, statsQuery, qualityCall>>
    /\ UNCHANGED <<cliVars, staticVars, heapVars, buildVars>>

\* tree.countLeafNodes()
CountLeafNodes ==
    /\ lastCall' = [op |-> "countLeafNodes", result |-> countLeafNodesRecursive(rootNode_)]
    /\ UNCHANGED <<variant, inputImage, imageWidth_, imageHeight_, rootNode_,
                   stats_, statsQuery, qualityCall>>
    /\ UNCHANGED <<cliVars, staticVars, heapVars, buildVars>>

\* tree.getCompressionRatio()
GetCompressionRatio ==
    /\ lastCall' = [op |-> "getCompressionRatio",
                    result |-> getCompressionRatio(imageWidth_, imageHeight_, rootNode_)]
    /\ UNCHANGED <<variant, inputImage, imageWidth_, imageHeight_, rootNode_,
                   stats_, statsQuery, qualityCall>>
    /\ UNCHANGED <<cliVars, staticVars, heapVars, buildVars>>

Next ==
    \/ \E config \in PruneConfigs : PruneTree(config)
    \/ RenderToImage
    \/ CountLeafNodes
    \/ GetCompressionRatio

Spec == Init /\ [][Next]_vars

-----------------------------------------------------------------------------
(* The statistics: construction from an image, then any sequence of queries *)

\* the rectangles isValidRectangle accepts for an image
ValidRectangles(image) ==
    {r \in [upperLeft : (0..(image.width_ - 1)) \X (0..(image.height_ - 1)),
            lowerRight : (0..(image.width_ - 1)) \X (0..(image.height_ - 1))] :
        r.upperLeft[1] <= r.lowerRight[1] /\ r.upperLeft[2] <= r.lowerRight[2]}

InitStats ==
    /\ variant \in Variants
    /\ inputImage \in StatImages
    /\ imageWidth_ = 0
    /\ imageHeight_ = 0
    /\ rootNode_ = Null
    /\ lastCall = NoCall
    /\ stats_ = ImageStatistics(variant, inputImage)
    /\ statsQuery = [op |-> "construct"]
    /\ qualityCall = NoCall
    /\ CliIdle
    /\ HeapIdle
    /\ BuildIdle
    /\ StaticsIdle

\* stats.getArea(region), stats.buildHueHistogram(region),
\* stats.calculateEntropy(region) and stats.getAverageColor(region)
QueryStats(region) ==
    /\ statsQuery' = [op |-> "query",
                      region |-> region,
                      area |-> getArea(region),
                      histogram |-> buildHueHistogram(stats_, region),
                      entropy |-> calculateEntropy(stats_, region),
                      averageColor |-> getAverageColor(stats_, region)]
    /\ UNCHANGED <<variant, inputImage, imageWidth_, imageHeight_, rootNode_,
                   lastCall, stats_, qualityCall>>
    /\ UNCHANGED <<cliVars, staticVars, heapVars, buildVars>>

NextStats == \E region \in ValidRectangles(inputImage) : QueryStats(region)

SpecStats == InitStats /\ [][NextStats]_vars

-----------------------------------------------------------------------------
(* The quality mapping: any sequence of getConfigForQuality calls *)

\* the sampled scores, some of them outside [0, 1]
Qualities == {(k * Scale) \div QualityGrid : k \in (0 - QualityMargin)..(QualityGrid + QualityMargin)}

InitQuality ==
    /\ TreeIdle
    /\ CliIdle
    /\ HeapIdle
    /\ BuildIdle
    /\ StaticsIdle

\* ImageCompressor::getConfigForQuality(quality)
GetConfigForQuality(quality) ==
    /\ qualityCall' = [op |-> "getConfigForQuality", quality |-> quality,
                       config |-> getConfigForQuality(quality)]
    /\ UNCHANGED <<variant, inputImage, imageWidth_, imageHeight_, rootNode_,
                   lastCall, stats_, statsQuery>>
    /\ UNCHANGED <<cliVars, staticVars, heapVars, buildVars>>

NextQuality == \E quality \in Qualities : GetConfigForQuality(quality)

SpecQuality == InitQuality /\ [][NextQuality]_vars

-----------------------------------------------------------------------------
(* The compressor: one compressImage call on one image *)

\* the images handed to compressImage: those of the trees, and the empty one
CompressImages == Images \cup LargerImages \cup {EmptyPNG}

\* the scores compressImage is called with: the documented scalars of the labels
CompressQualities == {0, Scale \div 5, Scale \div 2, (4 * Scale) \div 5, Scale}

\* the configurations compressImage is called with directly
ExplicitConfigs == {PruningConfig(Scale, 0), PruningConfig(0, 0)}

InitCompress ==
    /\ variant \in Variants
    /\ inputImage \in CompressImages
    /\ imageWidth_ = 0
    /\ imageHeight_ = 0
    /\ rootNode_ = Null
    /\ lastCall = NoCall
    /\ stats_ = Null
    /\ statsQuery = NoCall
    /\ qualityCall = NoCall
    /\ CliIdle
    /\ HeapIdle
    /\ BuildIdle
    /\ StaticsIdle

\* ImageCompressor::compressImage(inputImage, qualityScore).  The tree is a
\* local of performCompression: lastCall keeps it for the properties.  The
\* methods are static and keep nothing from one call to the next, so a
\* behaviour is one call on one input.
CompressImage(quality) ==
    /\ lastCall = NoCall
    /\ \E r \in performCompression(variant, inputImage, getConfigForQuality(quality)) :
          lastCall' = [op |-> "compressImage", quality |-> quality,
                       config |-> getConfigForQuality(quality), run |-> r]
    /\ UNCHANGED <<variant, inputImage, imageWidth_, imageHeight_, rootNode_,
                   stats_, statsQuery, qualityCall>>
    /\ UNCHANGED <<cliVars, staticVars, heapVars, buildVars>>

\* ImageCompressor::compressImage(inputImage, CompressionQuality)
CompressImageLevel(quality) ==
    /\ lastCall = NoCall
    /\ \E r \in performCompression(variant, inputImage, getConfigForQualityLevel(quality)) :
          lastCall' = [op |-> "compressImageLevel", quality |-> quality,
                       config |-> getConfigForQualityLevel(quality), run |-> r]
    /\ UNCHANGED <<variant, inputImage, imageWidth_, imageHeight_, rootNode_,
                   stats_, statsQuery, qualityCall>>
    /\ UNCHANGED <<cliVars, staticVars, heapVars, buildVars>>

\* ImageCompressor::compressImage(inputImage, const PruningConfig&)
CompressImageConfig(config) ==
    /\ lastCall = NoCall
    /\ \E r \in performCompression(variant, inputImage, config) :
          lastCall' = [op |-> "compressImageConfig", config |-> config, run |-> r]
    /\ UNCHANGED <<variant, inputImage, imageWidth_, imageHeight_, rootNode_,
                   stats_, statsQuery, qualityCall>>
    /\ UNCHANGED <<cliVars, staticVars, heapVars, buildVars>>

NextCompress ==
    \/ \E quality \in CompressQualities : CompressImage(quality)
    \/ \E quality \in CompressionQuality : CompressImageLevel(quality)
    \/ \E config \in ExplicitConfigs : CompressImageConfig(config)

SpecCompress == InitCompress /\ [][NextCompress]_vars

-----------------------------------------------------------------------------
(* The command line: parseQuality *)

\* the longest argument enumerated character by character
MaxArgLen == 3

Digits == {"0", "1", "5"}

\* the value of a decimal digit
DigitValue(c) == CASE c = "0" -> 0 [] c = "1" -> 1 [] c = "5" -> 5

\* the characters arguments are made of: digits, point, sign and a letter
Alphabet == Digits \cup {".", "-", "k"}

\* the labels parseQuality compares with
LabelHighest == <<"h", "i", "g", "h", "e", "s", "t">>
LabelHigh == <<"h", "i", "g", "h">>
LabelMedium == <<"m", "e", "d", "i", "u", "m">>
LabelLow == <<"l", "o", "w">>
LabelLowest == <<"l", "o", "w", "e", "s", "t">>
Labels == {LabelHighest, LabelHigh, LabelMedium, LabelLow, LabelLowest}

\* arguments that come close to a label
NearLabels ==
    {<<"H", "I", "G", "H">>, <<"h", "i", "g">>, <<"l", "o", "w", "e", "r">>,
     <<"m", "e", "d", "i", "u", "m", "k">>, <<"k", "l", "o", "w">>}

\* the argument strings: qualityStr as a sequence of characters
Arguments ==
    UNION {[1..n -> Alphabet] : n \in 0..MaxArgLen} \cup Labels \cup NearLabels

\* the digits of str from position i on, up to the first other character
RECURSIVE DigitRun(_, _)
DigitRun(str, i) ==
    IF i > Len(str) \/ str[i] \notin Digits THEN <<>>
    ELSE <<str[i]>> \o DigitRun(str, i + 1)

\* the number a sequence of digits writes
RECURSIVE DigitsValue(_)
DigitsValue(ds) ==
    IF ds = <<>> THEN 0
    ELSE 10 * DigitsValue(SubSeq(ds, 1, Len(ds) - 1)) + DigitValue(ds[Len(ds)])

RECURSIVE TenPow(_)
TenPow(n) == IF n = 0 THEN 1 ELSE 10 * TenPow(n - 1)

\* std::stod on the strings of Arguments: an optional sign, digits, an optional
\* point and digits; the longest such prefix is converted and the rest of the
\* string ignored; std::invalid_argument when there is no digit.  The value
\* is the fraction num / den, negative if the sign is there.
stod(str) ==
    LET negative == Len(str) >= 1 /\ str[1] = "-"
        start == IF negative THEN 2 ELSE 1
        whole == DigitRun(str, start)
        afterWhole == start + Len(whole)
        hasPoint == afterWhole <= Len(str) /\ str[afterWhole] = "."
        fraction == IF hasPoint THEN DigitRun(str, afterWhole + 1) ELSE <<>>
    IN  IF whole = <<>> /\ fraction = <<>> THEN [thrown |-> TRUE]
        ELSE [thrown |-> FALSE, negative |-> negative,
              num |-> DigitsValue(whole \o fraction), den |-> TenPow(Len(fraction))]

\* struct QualityValue, with whether a warning went to std::cerr
QualityValue(isFloat, num, den, enumValue, warning) ==
    [isFloat |-> isFloat, floatValue |-> <<num, den>>, enumValue |-> enumValue,
     warning |-> warning]

\* the catch branch of parseQuality: the labels, else 0.5 and a warning
parseLabel(qualityStr) ==
    IF qualityStr = LabelHighest THEN QualityValue(FALSE, 1, 1, "HIGHEST_QUALITY", FALSE)
    ELSE IF qualityStr = LabelHigh THEN QualityValue(FALSE, 4, 5, "HIGH_QUALITY", FALSE)
    ELSE IF qualityStr = LabelMedium THEN QualityValue(FALSE, 1, 2, "MEDIUM_QUALITY", FALSE)
    ELSE IF qualityStr = LabelLow THEN QualityValue(FALSE, 1, 5, "LOW_QUALITY", FALSE)
    ELSE IF qualityStr = LabelLowest THEN QualityValue(FALSE, 0, 1, "LOWEST_QUALITY", FALSE)
    ELSE QualityValue(TRUE, 1, 2, "MEDIUM_QUALITY", TRUE)

\* parseQuality (main.cpp)
parseQuality(qualityStr) ==
    LET value == stod(qualityStr)
    IN  IF ~value.thrown
        THEN IF value.num <= value.den /\ (~value.negative \/ value.num = 0)
             THEN QualityValue(TRUE, value.num, value.den, "MEDIUM_QUALITY", FALSE)
             ELSE QualityValue(TRUE, 1, 2, "MEDIUM_QUALITY", TRUE)
        ELSE parseLabel(qualityStr)

\* parseQuality(argv[3])
ParseQuality(qualityStr) ==
    /\ qualityCall' = [op |-> "parseQuality", qualityStr |-> qualityStr,
                       result |-> parseQuality(qualityStr)]
    /\ UNCHANGED <<variant, inputImage, imageWidth_, imageHeight_, rootNode_,
                   lastCall, stats_, statsQuery>>
    /\ UNCHANGED <<cliVars, staticVars, heapVars, buildVars>>

NextParse == \E qualityStr \in Arguments : ParseQuality(qualityStr)

SpecParse == InitQuality /\ [][NextParse]_vars

-----------------------------------------------------------------------------
(* The command line: main, one run of the batch *)

\* the most PNG files the input directory holds
MaxFiles == 3

\* what happens to a file in compressImageFile
Fates == {"ok", "loadFails", "compressFails", "saveFails"}

\* the contents of the input directory, as the fates of its PNG files in the
\* order findPngFiles lists them
Directories == UNION {[1..n -> Fates] : n \in 0..MaxFiles}

\* compressImageFile swallowing its errors
compressImageFileSilent(fate) == [threw |-> FALSE]

\* ImageCompressor::compressImageFile: loadFromFile, compressImage and
\* saveToFile each throw a std::exception when they fail
compressImageFile(fate) ==
    IF fate = "loadFails" THEN [threw |-> TRUE, what |-> "load"]
    ELSE IF fate = "compressFails" THEN [threw |-> TRUE, what |-> "compress"]
    ELSE IF fate = "saveFails" THEN [threw |-> TRUE, what |-> "save"]
    ELSE [threw |-> FALSE]

InitCLI ==
    /\ TreeIdle
    /\ StaticsIdle
    /\ HeapIdle
    /\ BuildIdle
    /\ argc \in 1..5
    /\ inputDirExists \in BOOLEAN
    /\ outputDirCreated \in BOOLEAN
    /\ directory \in Directories
    /\ pngFiles = <<>>
    /\ cliPc = "arguments"
    /\ nextFile = 0
    /\ processed = 0
    /\ errorsReported = <<>>
    /\ exitCode = 0

\* main: the argument count
CheckArguments ==
    /\ cliPc = "arguments"
    /\ IF argc < 3 \/ argc > 4
       THEN cliPc' = "exited" /\ exitCode' = 1
       ELSE cliPc' = "directories" /\ exitCode' = exitCode
    /\ UNCHANGED <<argc, inputDirExists, outputDirCreated, directory, pngFiles,
                   nextFile, processed, errorsReported>>
    /\ UNCHANGED <<treeVars, staticVars, heapVars, buildVars>>

\* main: createOutputDirectory and findPngFiles; a std::exception of either
\* goes to the outer catch
FindPngFiles ==
    /\ cliPc = "directories"
    /\ IF ~outputDirCreated \/ ~inputDirExists
       THEN cliPc' = "exited" /\ exitCode' = 1 /\ pngFiles' = pngFiles
       ELSE IF directory = <<>>
       THEN cliPc' = "exited" /\ exitCode' = 0 /\ pngFiles' = directory
       ELSE cliPc' = "loop" /\ exitCode' = exitCode /\ pngFiles' = directory
    /\ nextFile' = IF cliPc' = "loop" THEN 1 ELSE nextFile
    /\ UNCHANGED <<argc, inputDirExists, outputDirCreated, directory, processed,
                   errorsReported>>
    /\ UNCHANGED <<treeVars, staticVars, heapVars, buildVars>>

\* main: one iteration of the loop over pngFiles
ProcessFile ==
    /\ cliPc = "loop"
    /\ nextFile <= Len(pngFiles)
    /\ LET result == compressImageFile(pngFiles[nextFile])
       IN  IF result.threw
           THEN /\ errorsReported' = Append(errorsReported, nextFile)
                /\ processed' = processed
           ELSE /\ processed' = processed + 1
                /\ errorsReported' = errorsReported
    /\ nextFile' = nextFile + 1
    /\ UNCHANGED <<argc, inputDirExists, outputDirCreated, directory, pngFiles,
                   cliPc, exitCode>>
    /\ UNCHANGED <<treeVars, staticVars, heapVars, buildVars>>

\* main: the summary and return 0
Summary ==
    /\ cliPc = "loop"
    /\ nextFile > Len(pngFiles)
    /\ cliPc' = "exited"
    /\ exitCode' = 0
    /\ UNCHANGED <<argc, inputDirExists, outputDirCreated, directory, pngFiles,
                   nextFile, processed, errorsReported>>
    /\ UNCHANGED <<treeVars, staticVars, heapVars, buildVars>>

NextCLI == CheckArguments \/ FindPngFiles \/ ProcessFile \/ Summary

SpecCLI == InitCLI /\ [][NextCLI]_vars

-----------------------------------------------------------------------------
(* Two concurrent compressImage calls: the static lookup tables of
   ImageStatistics (main version) *)

\* the entries of each lookup table that are followed (the tables have 360)
LookupEntries == 3

\* the two calls, each in a thread of its own
Threads == {1, 2}

\* the memory locations of the static members
FlagLocation == <<"lookupTablesInitialized_", 0>>
VectorLocations == {<<"cosLookup_.size", 0>>, <<"sinLookup_.size", 0>>}
EntryLocations(i) == {<<"cosLookup_", i>>, <<"sinLookup_", i>>}

\* the accesses of a thread to a set of locations
Accesses(t, kind, locations) ==
    {[thread |-> t, kind |-> kind, location |-> l] : l \in locations}

\* std::vector<double>::resize(n): the elements there stay, new ones are 0.0
resize(table, n) ==
    [i \in 1..n |-> IF i <= Len(table) THEN table[i] ELSE "zero"]

\* what a read of a table entry can give: the element, if no other thread
\* wrote it; anything if another thread wrote it without synchronisation
\* (a data race) or if it lies past the end of the vector
ReadOutcomes(t, table, name, i) ==
    IF i >= Len(table) THEN {"garbage", "crash"}
    ELSE IF \E a \in accesses :
                a.thread # t /\ a.kind = "write" /\ a.location = <<name, i>>
    THEN {table[i + 1], "garbage"}
    ELSE {table[i + 1]}

InitConcurrent ==
    /\ TreeIdle
    /\ CliIdle
    /\ HeapIdle
    /\ BuildIdle
    /\ lookupTablesInitialized_ = FALSE
    /\ cosLookup_ = <<>>
    /\ sinLookup_ = <<>>
    /\ threadPc = [t \in Threads |-> "check"]
    /\ threadI = [t \in Threads |-> 0]
    /\ threadEntry \in [Threads -> 0..(LookupEntries - 1)]
    /\ threadCos = [t \in Threads |-> "none"]
    /\ accesses = {}

\* initializeLookupTables: if (lookupTablesInitialized_) return;
CheckInitialized(t) ==
    /\ threadPc[t] = "check"
    /\ threadPc' = [threadPc EXCEPT
                       ![t] = IF lookupTablesInitialized_ THEN "sweep" ELSE "resize"]
    /\ accesses' = accesses \cup Accesses(t, "read", {FlagLocation})
    /\ UNCHANGED <<lookupTablesInitialized_, cosLookup_, sinLookup_, threadI,
                   threadEntry, threadCos>>
    /\ UNCHANGED <<treeVars, cliVars, heapVars, buildVars>>

\* initializeLookupTables: cosLookup_.resize(360); sinLookup_.resize(360);
ResizeTables(t) ==
    /\ threadPc[t] = "resize"
    /\ cosLookup_' = resize(cosLookup_, LookupEntries)
    /\ sinLookup_' = resize(sinLookup_, LookupEntries)
    /\ threadPc' = [threadPc EXCEPT ![t] = "fill"]
    /\ threadI' = [threadI EXCEPT ![t] = 0]
    /\ accesses' = accesses \cup Accesses(t, "write", VectorLocations)
    /\ UNCHANGED <<lookupTablesInitialized_, threadEntry, threadCos>>
    /\ UNCHANGED <<treeVars, cliVars, heapVars, buildVars>>

\* initializeLookupTables: one iteration of the loop, cosLookup_[i] = ...;
\* sinLookup_[i] = ...;
FillEntry(t) ==
    /\ threadPc[t] = "fill"
    /\ threadI[t] < LookupEntries
    /\ cosLookup_' = [cosLookup_ EXCEPT ![threadI[t] + 1] = "value"]
    /\ sinLookup_' = [sinLookup_ EXCEPT ![threadI[t] + 1] = "value"]
    /\ threadI' = [threadI EXCEPT ![t] = threadI[t] + 1]
    /\ accesses' = accesses \cup Accesses(t, "write", EntryLocations(threadI[t]))
    /\ UNCHANGED <<lookupTablesInitialized_, threadPc, threadEntry, threadCos>>
    /\ UNCHANGED <<treeVars, cliVars, heapVars, buildVars>>

\* initializeLookupTables: lookupTablesInitialized_ = true;
SetInitialized(t) ==
    /\ threadPc[t] = "fill"
    /\ threadI[t] = LookupEntries
    /\ lookupTablesInitialized_' = TRUE
    /\ threadPc' = [threadPc EXCEPT ![t] = "sweep"]
    /\ accesses' = accesses \cup Accesses(t, "write", {FlagLocation})
    /\ UNCHANGED <<cosLookup_, sinLookup_, threadI, threadEntry, threadCos>>
    /\ UNCHANGED <<treeVars, cliVars, heapVars, buildVars>>

\* the constructor's sweep over the call's own image: fastCos and fastSin read
\* the entry of the pixel's hue; everything else the call touches is its own
Sweep(t) ==
    /\ threadPc[t] = "sweep"
    /\ \E c \in ReadOutcomes(t, cosLookup_, "cosLookup_", threadEntry[t]) :
          threadCos' = [threadCos EXCEPT ![t] = c]
    /\ threadPc' = [threadPc EXCEPT ![t] = "done"]
    /\ accesses' = accesses \cup Accesses(t, "read", EntryLocations(threadEntry[t]))
    /\ UNCHANGED <<lookupTablesInitialized_, cosLookup_, sinLookup_, threadI, threadEntry>>
    /\ UNCHANGED <<treeVars, cliVars, heapVars, buildVars>>

NextConcurrent ==
    \E t \in Threads :
        \/ CheckInitialized(t)
        \/ ResizeTables(t)
        \/ FillEntry(t)
        \/ SetInitialized(t)
        \/ Sweep(t)

SpecConcurrent == InitConcurrent /\ [][NextConcurrent]_vars

-----------------------------------------------------------------------------
(* findOptimalSplit: one of the calls buildTreeRecursive makes while it builds
   a tree (the function reads the statistics and changes nothing, so one
   call per behaviour shows all there is) *)

\* the largest end - start getSplitCandidates is called with
MaxSpan == 14

\* a strip of thirteen pixels that reads the same from both ends: three red,
\* seven blue, three red
MirrorStrip ==
    [width_ |-> 1, height_ |-> 13,
     imageData_ |-> [i \in 1..13 |-> IF i <= 3 \/ i >= 11 THEN Red ELSE Blue]]

\* the images findOptimalSplit is run on
SplitImages == Images \cup LargerImages \cup {MirrorStrip}

\* the regions buildTreeRecursive hands to findOptimalSplit: those of the
\* nodes it gives children
RECURSIVE SplitRegions(_)
SplitRegions(node) ==
    IF node = Null \/ isLeaf(node) THEN {}
    ELSE {node.region} \cup SplitRegions(node.leftChild) \cup SplitRegions(node.rightChild)

InitSplit ==
    /\ variant \in Variants
    /\ inputImage \in SplitImages
    /\ imageWidth_ = inputImage.width_
    /\ imageHeight_ = inputImage.height_
    /\ rootNode_ = IF inputImage = MirrorStrip THEN buildTree(variant, inputImage)
                   ELSE builtTree[variant, inputImage]
    /\ lastCall = NoCall
    /\ stats_ = ImageStatistics(variant, inputImage)
    /\ statsQuery = NoCall
    /\ qualityCall = NoCall
    /\ CliIdle
    /\ HeapIdle
    /\ BuildIdle
    /\ StaticsIdle

\* findOptimalSplit(statistics, region)
FindOptimalSplit(region) ==
    /\ lastCall = NoCall
    /\ lastCall' = [op |-> "findOptimalSplit", region |-> region,
                    splitResult |-> findOptimalSplit(variant, stats_, region)]
    /\ UNCHANGED <<variant, inputImage, imageWidth_, imageHeight_, rootNode_,
                   stats_, statsQuery, qualityCall>>
    /\ UNCHANGED <<cliVars, staticVars, heapVars, buildVars>>

\* getSplitCandidates(start, end) of the alt version, maxCandidates defaulted
GetSplitCandidates(start, end) ==
    /\ variant = "alt"
    /\ lastCall = NoCall
    /\ lastCall' = [op |-> "getSplitCandidates", start |-> start, end |-> end,
                    candidates |-> getSplitCandidates(start, end, MaxCandidates)]
    /\ UNCHANGED <<variant, inputImage, imageWidth_, imageHeight_, rootNode_,
                   stats_, statsQuery, qualityCall>>
    /\ UNCHANGED <<cliVars, staticVars, heapVars, buildVars>>

NextSplit ==
    \/ \E region \in SplitRegions(rootNode_) : FindOptimalSplit(region)
    \/ \E start \in 0..2 : \E span \in 1..MaxSpan : GetSplitCandidates(start, start + span)

SpecSplit == InitSplit /\ [][NextSplit]_vars

-----------------------------------------------------------------------------
(* Trees as objects: nodes on the heap, copy construction, copy assignment *)

\* std::unique_ptr<TreeNode> holds an address; nullptr is 0
nullptr == 0

\* std::make_unique<TreeNode>: the address of the new node, the lowest one free
NewAddress(h) ==
    CHOOSE a \in 1..(Cardinality(DOMAIN h) + 1) :
        /\ a \notin DOMAIN h
        /\ \A b \in 1..(Cardinality(DOMAIN h) + 1) : b \notin DOMAIN h => a <= b

\* a TreeNode on the heap: its children are addresses
HeapNode(region, averageColor, leftChild, rightChild) ==
    [region |-> region, averageColor |-> averageColor,
     leftChild |-> leftChild, rightChild |-> rightChild]

\* what a read through a pointer to a destroyed node may find
Dangling == TreeNode(EmptyRegion, DefaultPixel)

\* the tree under an address, as nested TreeNode records
RECURSIVE nodeAt(_, _)
nodeAt(h, node) ==
    IF node = nullptr THEN Null
    ELSE IF node \notin DOMAIN h THEN Dangling
    ELSE [region |-> h[node].region, averageColor |-> h[node].averageColor,
          leftChild |-> nodeAt(h, h[node].leftChild),
          rightChild |-> nodeAt(h, h[node].rightChild)]

\* the addresses of the nodes a pointer owns: the node and all below it
RECURSIVE Owned(_, _)
Owned(h, node) ==
    IF node = nullptr \/ node \notin DOMAIN h THEN {}
    ELSE {node} \cup Owned(h, h[node].leftChild) \cup Owned(h, h[node].rightChild)

\* ~unique_ptr / unique_ptr::reset(): the node and all it owns are destroyed
destroy(h, node) == [a \in DOMAIN h \ Owned(h, node) |-> h[a]]

\* the nodes buildTreeRecursive makes, put on the heap: the node is made
\* first, then its left subtree, then its right subtree
RECURSIVE makeNodes(_, _)
makeNodes(h, tree) ==
    IF tree = Null THEN [heap |-> h, node |-> nullptr]
    ELSE LET currentNode == NewAddress(h)
             h1 == h @@ (currentNode :> HeapNode(tree.region, tree.averageColor,
                                                 nullptr, nullptr))
             l == makeNodes(h1, tree.leftChild)
             r == makeNodes(l.heap, tree.rightChild)
         IN  [heap |-> [r.heap EXCEPT ![currentNode].leftChild = l.node,
                                      ![currentNode].rightChild = r.node],
              node |-> currentNode]

\* a copy that takes over the source's pointer instead of copying the nodes
copyTreeShallow(h, sourceNode) == [heap |-> h, node |-> sourceNode]

\* AdaptiveImageTree::copyTreeRecursive: the heap with the copy, and its root
RECURSIVE copyTreeRecursive(_, _)
copyTreeRecursive(h, sourceNode) ==
    IF sourceNode = nullptr THEN [heap |-> h, node |-> nullptr]
    ELSE LET newNode == NewAddress(h)
             h1 == h @@ (newNode :> HeapNode(h[sourceNode].region,
                                             h[sourceNode].averageColor,
                                             nullptr, nullptr))
             l == IF h[sourceNode].leftChild # nullptr
                  THEN copyTreeRecursive(h1, h[sourceNode].leftChild)
                  ELSE [heap |-> h1, node |-> nullptr]
             r == IF h[sourceNode].rightChild # nullptr
                  THEN copyTreeRecursive(l.heap, h[sourceNode].rightChild)
                  ELSE [heap |-> l.heap, node |-> nullptr]
         IN  [heap |-> [r.heap EXCEPT ![newNode].leftChild = l.node,
                                      ![newNode].rightChild = r.node],
              node |-> newNode]

\* pruneNodeRecursive on the heap, resetting the left child only
RECURSIVE pruneNodeLeftOnly(_, _, _)
pruneNodeLeftOnly(h, node, config) ==
    IF node = nullptr THEN h
    ELSE IF h[node].leftChild = nullptr /\ h[node].rightChild = nullptr THEN h
    ELSE LET h1 == pruneNodeLeftOnly(h, h[node].leftChild, config)
             h2 == pruneNodeLeftOnly(h1, h[node].rightChild, config)
         IN  IF shouldPruneSubtree(nodeAt(h2, node), config)
             THEN [destroy(h2, h2[node].leftChild) EXCEPT ![node].leftChild = nullptr]
             ELSE h2

\* AdaptiveImageTree::pruneNodeRecursive on the heap: the children first, then
\* the node; the reset() calls destroy what the children own
RECURSIVE pruneNodeOnHeap(_, _, _)
pruneNodeOnHeap(h, node, config) ==
    IF node = nullptr THEN h
    ELSE IF h[node].leftChild = nullptr /\ h[node].rightChild = nullptr THEN h
    ELSE LET h1 == pruneNodeOnHeap(h, h[node].leftChild, config)
             h2 == pruneNodeOnHeap(h1, h[node].rightChild, config)
         IN  IF shouldPruneSubtree(nodeAt(h2, node), config)
             THEN [destroy(destroy(h2, h2[node].leftChild), h2[node].rightChild)
                     EXCEPT ![node].leftChild = nullptr, ![node].rightChild = nullptr]
             ELSE h2

\* the tree objects of the program: one built from the image, one copied
Objects == {"tree", "copy"}

\* the largest image the copying program builds its tree from
MaxCopyPixels == 3

\* the images the copying program builds its tree from
CopyImages == {image \in ImagesOf({Red, Rose}) : getPixelCount(image) <= MaxCopyPixels}

\* the number of copies (constructions and assignments) the program makes
MaxCopies == 2

\* the configurations the copying program prunes with: exact matches only,
\* and the loose end of the quality scale
CopyConfigs == {PruningConfig(Scale, 0), getConfigForQuality(0)}

InitCopy ==
    /\ variant \in Variants
    /\ inputImage \in CopyImages
    /\ imageWidth_ = 0
    /\ imageHeight_ = 0
    /\ rootNode_ = Null
    /\ lastCall = [op |-> "construct", object |-> "tree", copies |-> 0]
    /\ stats_ = Null
    /\ statsQuery = NoCall
    /\ qualityCall = NoCall
    /\ CliIdle
    /\ StaticsIdle
    /\ BuildIdle
    /\ LET made == makeNodes(<<>>, builtTree[variant, inputImage])
       IN  /\ heap = made.heap
           /\ trees = [t \in {"tree"} |->
                          [imageWidth_ |-> inputImage.width_,
                           imageHeight_ |-> inputImage.height_,
                           rootNode_ |-> made.node]]

\* AdaptiveImageTree to(from): the copy constructor
CopyConstruct(to, from) ==
    /\ lastCall.copies < MaxCopies
    /\ from \in DOMAIN trees
    /\ to \notin DOMAIN trees
    /\ LET copied == copyTreeRecursive(heap, trees[from].rootNode_)
       IN  /\ heap' = copied.heap
           /\ trees' = [t \in DOMAIN trees \cup {to} |->
                           IF t = to
                           THEN [imageWidth_ |-> trees[from].imageWidth_,
                                 imageHeight_ |-> trees[from].imageHeight_,
                                 rootNode_ |-> copied.node]
                           ELSE trees[t]]
    /\ lastCall' = [op |-> "copyConstruct", object |-> to, copies |-> lastCall.copies + 1]
    /\ UNCHANGED <<variant, inputImage, imageWidth_, imageHeight_, rootNode_,
                   stats_, statsQuery, qualityCall>>
    /\ UNCHANGED <<cliVars, staticVars, buildVars>>

\* to = rhs: operator=.  Nothing happens on self-assignment; otherwise the
\* copy is made while the old nodes of `to` are alive, and assigning it to
\* rootNode_ destroys them
CopyAssign(to, rhs) ==
    /\ lastCall.copies < MaxCopies
    /\ to \in DOMAIN trees
    /\ rhs \in DOMAIN trees
    /\ IF to # rhs
       THEN LET copied == copyTreeRecursive(heap, trees[rhs].rootNode_)
            IN  /\ heap' = destroy(copied.heap, trees[to].rootNode_)
                /\ trees' = [trees EXCEPT
                               ![to] = [imageWidth_ |-> trees[rhs].imageWidth_,
                                        imageHeight_ |-> trees[rhs].imageHeight_,
                                        rootNode_ |-> copied.node]]
       ELSE UNCHANGED <<heap, trees>>
    /\ lastCall' = [op |-> "copyAssign", object |-> to,
                    copies |-> IF to # rhs THEN lastCall.copies + 1 ELSE lastCall.copies]
    /\ UNCHANGED <<variant, inputImage, imageWidth_, imageHeight_, rootNode_,
                   stats_, statsQuery, qualityCall>>
    /\ UNCHANGED <<cliVars, staticVars, buildVars>>

\* object.pruneTree(config)
PruneTreeOf(object, config) ==
    /\ object \in DOMAIN trees
    /\ heap' = IF trees[object].rootNode_ # nullptr
               THEN pruneNodeOnHeap(heap, trees[object].rootNode_, config)
               ELSE heap
    /\ lastCall' = [op |-> "pruneTree", object |-> object, copies |-> lastCall.copies]
    /\ UNCHANGED trees
    /\ UNCHANGED <<variant, inputImage, imageWidth_, imageHeight_, rootNode_,
                   stats_, statsQuery, qualityCall>>
    /\ UNCHANGED <<cliVars, staticVars, buildVars>>

NextCopy ==
    \/ \E to \in Objects : \E from \in Objects : CopyConstruct(to, from)
    \/ \E to \in Objects : \E rhs \in Objects : CopyAssign(to, rhs)
    \/ \E object \in Objects : \E config \in CopyConfigs : PruneTreeOf(object, config)

SpecCopy == InitCopy /\ [][NextCopy]_vars

-----------------------------------------------------------------------------
(* Construction step by step: the calls of buildTreeRecursive, one per step *)

\* the images a tree is built from step by step
BuildImages == Images \cup LargerImages

\* a call of buildTreeRecursive still to be made: its region, and the region
\* of the call that makes it (Null for the constructor's call on the root)
Frame(region, parent) == [region |-> region, parent |-> parent]

\* the two recursive calls of a call that goes on with its own region
recurseOnSelf(rest, region, splitResult) ==
    <<Frame(region, region), Frame(region, region)>> \o rest

\* the two recursive calls of buildTreeRecursive: the left region first, then
\* the right one, before the calls that were pending
recurse(rest, region, splitResult) ==
    <<Frame(splitResult[1], region), Frame(splitResult[2], region)>> \o rest

InitBuild ==
    /\ variant \in Variants
    /\ inputImage \in BuildImages
    /\ imageWidth_ = inputImage.width_
    /\ imageHeight_ = inputImage.height_
    /\ rootNode_ = Null
    /\ lastCall = NoCall
    /\ stats_ = ImageStatistics(variant, inputImage)
    /\ statsQuery = NoCall
    /\ qualityCall = NoCall
    /\ CliIdle
    /\ StaticsIdle
    /\ heap = <<>>
    /\ trees = <<>>
    /\ callStack = <<Frame(Rectangle(0, 0, inputImage.width_ - 1, inputImage.height_ - 1),
                           Null)>>
    /\ nodesMade = [calls |-> 0, leaves |-> 0]

\* one call of buildTreeRecursive: it makes its node and returns it as a leaf,
\* or splits its region and calls itself on the two parts
BuildCall ==
    /\ callStack # <<>>
    /\ LET region == Head(callStack).region
           stops == stopsAt(variant, stats_, region)
       IN  /\ callStack' = IF stops THEN Tail(callStack)
                           ELSE recurse(Tail(callStack), region,
                                        findOptimalSplit(variant, stats_, region))
           /\ nodesMade' = [calls |-> nodesMade.calls + 1,
                            leaves |-> nodesMade.leaves + (IF stops THEN 1 ELSE 0)]
    /\ UNCHANGED <<treeVars, cliVars, staticVars, heapVars>>

NextBuild == BuildCall

\* the constructor runs on: a call that can be made is made.  This is
\* WF_buildVars(NextBuild) with ENABLED <<NextBuild>>_buildVars written out:
\* a call can be made exactly when one is pending
BuildFairness == []<>(callStack = <<>>) \/ []<><<NextBuild>>_buildVars

SpecBuild == InitBuild /\ [][NextBuild]_vars /\ BuildFairness

-----------------------------------------------------------------------------
(* Shared definitions of the properties *)

\* the leaves under a node
RECURSIVE Leaves(_)
Leaves(node) ==
    IF node = Null THEN {}
    ELSE IF isLeaf(node) THEN {node}
    ELSE Leaves(node.leftChild) \cup Leaves(node.rightChild)

\* every node under a node, with its position: the path from the root
\* (1 = left, 2 = right)
RECURSIVE NodesAt(_, _)
NodesAt(node, path) ==
    IF node = Null THEN {}
    ELSE {[path |-> path, region |-> node.region, averageColor |-> node.averageColor,
           leaf |-> isLeaf(node)]}
         \cup NodesAt(node.leftChild, Append(path, 1))
         \cup NodesAt(node.rightChild, Append(path, 2))

Positions(root) == {n.path : n \in NodesAt(root, <<>>)}

PixelsOf(width, height) == (0..(width - 1)) \X (0..(height - 1))

\* whether the pixel (x, y) lies in a region
inRegion(region, x, y) ==
    /\ region.upperLeft[1] <= x /\ x <= region.lowerRight[1]
    /\ region.upperLeft[2] <= y /\ y <= region.lowerRight[2]

\* a prune call has just turned at least one internal node into a leaf
PruneCollapsed ==
    /\ lastCall.op = "pruneTree"
    /\ countLeafNodesRecursive(rootNode_) < lastCall.leavesBefore

-----------------------------------------------------------------------------
(* C1: after construction and any sequence of pruneTree calls the leaves'
   rectangles are pairwise disjoint, lie inside the image and cover every
   pixel exactly once (their areas add up to W*H), and the root's rectangle
   is (0, 0, W-1, H-1). *)
RECURSIVE SumAreas(_)
SumAreas(nodes) ==
    IF nodes = {} THEN 0
    ELSE LET n == CHOOSE m \in nodes : TRUE
         IN  getArea(n.region) + SumAreas(nodes \ {n})

C1_LeavesTileImage ==
    LET leaves == Leaves(rootNode_)
    IN  /\ rootNode_ # Null
        /\ rootNode_.region = Rectangle(0, 0, inputImage.width_ - 1, inputImage.height_ - 1)
        /\ \A l \in leaves :
              /\ 0 <= l.region.upperLeft[1] /\ l.region.upperLeft[1] <= l.region.lowerRight[1]
              /\ l.region.lowerRight[1] < inputImage.width_
              /\ 0 <= l.region.upperLeft[2] /\ l.region.upperLeft[2] <= l.region.lowerRight[2]
              /\ l.region.lowerRight[2] < inputImage.height_
        /\ \A xy \in PixelsOf(inputImage.width_, inputImage.height_) :
              Cardinality({l \in leaves : inRegion(l.region, xy[1], xy[2])}) = 1
        /\ SumAreas(leaves) = inputImage.width_ * inputImage.height_

\* a pruned tree that still has several leaves, of which one is larger than a pixel
C1_Witness ==
    /\ PruneCollapsed
    /\ countLeafNodesRecursive(rootNode_) >= 2
    /\ \E l \in Leaves(rootNode_) : getArea(l.region) >= 2

(* C2: a pruneTree call never increases countLeafNodes(): the count after
   the call is at most the count before it. *)
C2_PruneMonotonic ==
    [][countLeafNodesRecursive(rootNode_') <= countLeafNodesRecursive(rootNode_)]_vars

C2_Witness == PruneCollapsed

(* C3: over any sequence of operations the only change of a node is internal
   -> leaf: every node of the tree after a step is a node of the tree before
   it, at the same position with the same rectangle and colour, a leaf stays
   a leaf, and no node is created. *)
C3_OnlyInternalToLeaf ==
    [][/\ Positions(rootNode_') \subseteq Positions(rootNode_)
       /\ \A n \in NodesAt(rootNode_, <<>>) : \A m \in NodesAt(rootNode_', <<>>) :
             n.path = m.path =>
                /\ m.region = n.region
                /\ m.averageColor = n.averageColor
                /\ (n.leaf => m.leaf)]_vars

\* a prune call collapsed a node below the root: the tree keeps internal nodes
C3_Witness ==
    /\ PruneCollapsed
    /\ countLeafNodesRecursive(rootNode_) >= 2

(* C4: construction returns a region whose hue-histogram entropy is below
   0.1 as a leaf without splitting it; in particular the freshly built tree
   of a uniform image is a single root leaf. *)
C4_EntropyEarlyTermination ==
    lastCall.op = "construct" =>
        LET stats == ImageStatistics(variant, inputImage)
        IN  \A n \in NodesAt(rootNode_, <<>>) :
                calculateEntropy(stats, n.region) < EntropyScale \div 10 => n.leaf

(* C5: renderToImage gives a W x H image in which every pixel has the
   averageColor of the one leaf whose rectangle contains it, writes every
   pixel exactly once, and leaves the tree as it was. *)
C5_RenderPaintsLeaves ==
    /\ [](lastCall.op = "renderToImage" =>
            /\ lastCall.result.width_ = imageWidth_
            /\ lastCall.result.height_ = imageHeight_
            /\ \A xy \in PixelsOf(imageWidth_, imageHeight_) :
                  LET holders == {l \in Leaves(rootNode_) : inRegion(l.region, xy[1], xy[2])}
                  IN  /\ Cardinality(holders) = 1
                      /\ \A l \in holders :
                            getPixel(lastCall.result, xy[1], xy[2]) = l.averageColor
                      /\ lastCall.writes[xy[1] + xy[2] * imageWidth_ + 1] = 1)
    /\ [][lastCall'.op = "renderToImage" => rootNode_' = rootNode_]_vars

\* a rendering of a tree with several leaves, one of them larger than a pixel
\* and one of a colour other than the blank image's
C5_Witness ==
    /\ lastCall.op = "renderToImage"
    /\ countLeafNodesRecursive(rootNode_) >= 2
    /\ \E l \in Leaves(rootNode_) : getArea(l.region) >= 2
    /\ \E l \in Leaves(rootNode_) : l.averageColor # DefaultPixel

(* C6: every bin of buildHueHistogram(R) is the number of pixels of R whose
   hue h has min(floor(h / 10), 35) equal to the bin, and the bins add up to
   getArea(R). *)
DirectCount(image, region, bin) ==
    Cardinality({xy \in PixelsOf(image.width_, image.height_) :
                    /\ inRegion(region, xy[1], xy[2])
                    /\ LET h == getPixel(image, xy[1], xy[2]).hue \div (10 * HueUnit)
                       IN  (IF h < 35 THEN h ELSE 35) = bin})

C6_HistogramIsDirectCount ==
    statsQuery.op = "query" =>
        /\ DOMAIN statsQuery.histogram = 0..35
        /\ \A bin \in 0..35 :
              statsQuery.histogram[bin] = DirectCount(inputImage, statsQuery.region, bin)
        /\ SumBins(statsQuery.histogram, 36) = statsQuery.area
        /\ statsQuery.area =
              (statsQuery.region.lowerRight[1] - statsQuery.region.upperLeft[1] + 1)
              * (statsQuery.region.lowerRight[2] - statsQuery.region.upperLeft[2] + 1)

\* a query of a rectangle away from both the left and the top edge, in an
\* image whose pixels fall into more than one bin
C6_Witness ==
    /\ statsQuery.op = "query"
    /\ statsQuery.region.upperLeft[1] > 0
    /\ statsQuery.region.upperLeft[2] > 0
    /\ \E i, j \in DOMAIN inputImage.imageData_ :
          inputImage.imageData_[i].hue \div (10 * HueUnit)
             # inputImage.imageData_[j].hue \div (10 * HueUnit)

(* C7: for an image whose pixels all have the same colour, of any hue,
   calculateEntropy is 0 for every valid rectangle and getAverageColor gives
   the pixels' hue, saturation and luminance. *)
UniformImage(image) == \A i \in DOMAIN image.imageData_ : image.imageData_[i] = image.imageData_[1]

C7_UniformStatistics ==
    (statsQuery.op = "query" /\ UniformImage(inputImage)) =>
        /\ statsQuery.entropy = 0
        /\ statsQuery.averageColor.hue = inputImage.imageData_[1].hue
        /\ statsQuery.averageColor.saturation = inputImage.imageData_[1].saturation
        /\ statsQuery.averageColor.luminance = inputImage.imageData_[1].luminance

(* C8: after rendering, statistics built from the rendered image give, for
   every leaf's rectangle, getAverageColor equal to the leaf's averageColor
   (hue, saturation, luminance). *)
C8_RenderedMeansAreLeafColours ==
    lastCall.op = "renderToImage" =>
        LET stats == ImageStatistics(variant, lastCall.result)
        IN  \A l \in Leaves(rootNode_) :
               LET mean == getAverageColor(stats, l.region)
               IN  /\ mean.hue = l.averageColor.hue
                   /\ mean.saturation = l.averageColor.saturation
                   /\ mean.luminance = l.averageColor.luminance

(* C9: getConfigForQuality(0.0) is (minSimilarityRatio 0.85, colorTolerance
   0.30) and getConfigForQuality(1.0) is (0.995, 0.005). *)
C9_QualityEndpoints ==
    qualityCall.op = "getConfigForQuality" =>
        /\ qualityCall.quality = 0 =>
              qualityCall.config = PruningConfig((85 * Scale) \div 100, (30 * Scale) \div 100)
        /\ qualityCall.quality = Scale =>
              qualityCall.config = PruningConfig((995 * Scale) \div 1000, (5 * Scale) \div 1000)

C9_Witness ==
    /\ qualityCall.op = "getConfigForQuality"
    /\ qualityCall.quality = Scale

(* C10: getConfigForQuality is monotonic on [0, 1]: for q1 <= q2 the
   minSimilarityRatio of q1 is at most that of q2 and the colorTolerance of
   q1 is at least that of q2. *)
C10_QualityMonotonic ==
    (/\ qualityCall.op = "getConfigForQuality"
     /\ 0 <= qualityCall.quality /\ qualityCall.quality <= Scale) =>
        \A q1 \in {q \in Qualities : 0 <= q /\ q <= qualityCall.quality} :
            /\ getConfigForQuality(q1).minimumSimilarityPercentage <= qualityCall.config.minimumSimilarityPercentage
            /\ getConfigForQuality(q1).colorToleranceThreshold >= qualityCall.config.colorToleranceThreshold

\* a call in the interior of the scale, where both values differ from those at 0
C10_Witness ==
    /\ qualityCall.op = "getConfigForQuality"
    /\ 0 < qualityCall.quality /\ qualityCall.quality < Scale
    /\ qualityCall.config.minimumSimilarityPercentage > getConfigForQuality(0).minimumSimilarityPercentage
    /\ qualityCall.config.colorToleranceThreshold < getConfigForQuality(0).colorToleranceThreshold

\* a compressImage call has returned a result
Returned == lastCall.op = "compressImage" /\ lastCall.run.outcome = "returned"

\* compressedRegions of compressImage(inputImage, q), for an image with pixels
RegionsAt(q) ==
    countLeafNodesRecursive(pruneTree(builtTree[variant, inputImage], getConfigForQuality(q)))

(* C11: for every image, compressedRegions at quality 0.0 is at most
   compressedRegions at any quality in [0, 1], which is at most
   compressedRegions at quality 1.0. *)
C11_QualityExtremes ==
    Returned =>
        /\ RegionsAt(0) <= lastCall.run.result.compressedRegions
        /\ lastCall.run.result.compressedRegions <= RegionsAt(Scale)

(* C12: compressImage on a uniform image returns, at any quality,
   compressedRegions = 1 and compressionRatio = 1/(W*H), and every pixel of
   the returned image equals the input pixel. *)
C12_UniformImage ==
    (Returned /\ UniformImage(inputImage)) =>
        /\ lastCall.run.result.compressedRegions = 1
        /\ lastCall.run.result.compressionRatio[1] * inputImage.width_ * inputImage.height_
              = lastCall.run.result.compressionRatio[2]
        /\ \A xy \in PixelsOf(inputImage.width_, inputImage.height_) :
              getPixel(lastCall.run.result.compressedImage, xy[1], xy[2])
                 = getPixel(inputImage, xy[1], xy[2])

(* C12, amended: compressImage on a uniform image returns, at any quality,
   compressedRegions = 1 and compressionRatio = 1/(W*H), and every pixel of
   the returned image has the input pixel's saturation and luminance, the
   alpha 1.0 whatever the input's alpha, and a hue less than one degree
   from the input's. *)
C12_UniformImageAmended ==
    (Returned /\ UniformImage(inputImage)) =>
        /\ lastCall.run.result.compressedRegions = 1
        /\ lastCall.run.result.compressionRatio[1] * inputImage.width_ * inputImage.height_
              = lastCall.run.result.compressionRatio[2]
        /\ \A xy \in PixelsOf(inputImage.width_, inputImage.height_) :
              LET out == getPixel(lastCall.run.result.compressedImage, xy[1], xy[2])
                  in == getPixel(inputImage, xy[1], xy[2])
              IN  /\ out.saturation = in.saturation
                  /\ out.luminance = in.luminance
                  /\ out.alpha = Scale
                  /\ Abs(out.hue - in.hue) < HueUnit

\* a result for a uniform image of several translucent pixels
C12_Witness ==
    /\ Returned
    /\ UniformImage(inputImage)
    /\ inputImage.width_ * inputImage.height_ >= 2
    /\ inputImage.imageData_[1].alpha < Scale

(* C15: the CompressionResult of compressImage has originalPixels = W*H,
   compressedRegions = the number of leaves of the pruned tree that was
   rendered, compressionRatio = compressedRegions / originalPixels (0 for an
   empty image) and an image of the input's dimensions; the call does not
   modify the input image. *)
C15_ResultMetrics ==
    /\ [](Returned =>
            LET result == lastCall.run.result
            IN  /\ result.originalPixels = inputImage.width_ * inputImage.height_
                /\ result.compressedRegions = Cardinality(Leaves(lastCall.run.tree))
                /\ IF result.originalPixels = 0
                   THEN result.compressionRatio[1] = 0
                   ELSE result.compressionRatio[1] * result.originalPixels
                           = result.compressedRegions * result.compressionRatio[2]
                /\ result.compressedImage.width_ = inputImage.width_
                /\ result.compressedImage.height_ = inputImage.height_)
    /\ [][inputImage' = inputImage]_vars

\* a result with more than one region and fewer regions than pixels
C15_Witness ==
    /\ Returned
    /\ lastCall.run.result.compressedRegions >= 2
    /\ lastCall.run.result.compressedRegions < lastCall.run.result.originalPixels

(* C16: for an empty input, tree construction either rejects the input with
   an error or yields a root that is a single leaf over an empty rectangle,
   never a node with children, and the pipeline on such a tree reports
   compressionRatio 0. *)
C16_EmptyInput ==
    (lastCall.op = "compressImage" /\ isEmpty(inputImage)) =>
        \/ lastCall.run.outcome = "rejected"
        \/ /\ lastCall.run.outcome = "returned"
           /\ isLeaf(lastCall.run.built)
           /\ getArea(lastCall.run.built.region) = 0
           /\ lastCall.run.result.compressionRatio[1] = 0

\* the rows k such that rows 0..k-1 are of one colour and rows k..H-1 of
\* another whose hue falls in a different bin
BandBoundaries(image) ==
    {k \in 1..(image.height_ - 1) :
        /\ \A xy \in PixelsOf(image.width_, image.height_) :
              getPixel(image, xy[1], xy[2])
                 = getPixel(image, 0, IF xy[2] < k THEN 0 ELSE k)
        /\ hueBin(getPixel(image, 0, 0).hue) # hueBin(getPixel(image, 0, k).hue)}

TwoBands(image) == ~isEmpty(image) /\ BandBoundaries(image) # {}

\* the root of a tree has the two bands of an image as its children's regions
SplitAtBoundary(root, image) ==
    \E k \in BandBoundaries(image) :
        /\ ~isLeaf(root)
        /\ root.leftChild.region = Rectangle(0, 0, image.width_ - 1, k - 1)
        /\ root.rightChild.region = Rectangle(0, k, image.width_ - 1, image.height_ - 1)

(* C13: for an image of two uniform horizontal bands of colours in different
   hue bins the root is split by the horizontal cut at the band boundary, and
   after pruneTree with any configuration the tree has exactly 2 leaves. *)
C13_TwoBands ==
    (Returned /\ TwoBands(inputImage)) =>
        /\ SplitAtBoundary(lastCall.run.built, inputImage)
        /\ Cardinality(Leaves(lastCall.run.tree)) = 2

\* the pixels of the bands whose mean colour is within the tolerance of the
\* mean colour of the whole image
BandPixelsWithin(root, tolerance) ==
    LET within(band) ==
            IF calculateColorDistance(band.averageColor, root.averageColor)
                  <= DistancePerScale * tolerance
            THEN getArea(band.region) ELSE 0
    IN  within(root.leftChild) + within(root.rightChild)

\* the cut at the band boundary is one of the cuts findOptimalSplit tries at the
\* root: every cut in the main version, the sampled rows in the alt version
BoundaryTried(v, image) ==
    \/ v = "main"
    \/ \E k \in BandBoundaries(image) :
          LET rows == getSplitCandidates(0, image.height_ - 1, MaxCandidates)
          IN  \E i \in 1..Len(rows) : rows[i] = k - 1

(* C13, amended: for an image of two uniform horizontal bands of colours in
   different hue bins, when the cut at the band boundary is among the cuts
   findOptimalSplit tries (always in the version that tries every cut; in the
   sampling version always up to 9 rows), the root is split by that cut, and
   after pruneTree the tree has at most 2 leaves: the two bands when the
   pixels of the bands whose colour is within colorToleranceThreshold of the
   root's averageColor are fewer than minimumSimilarityPercentage of the
   image, and the root alone otherwise. *)
C13_TwoBandsAmended ==
    (Returned /\ TwoBands(inputImage) /\ BoundaryTried(variant, inputImage)) =>
        LET built == lastCall.run.built
            config == lastCall.config
            merges == BandPixelsWithin(built, config.colorToleranceThreshold) * Scale
                         >= config.minimumSimilarityPercentage * lastCall.run.result.originalPixels
        IN  /\ SplitAtBoundary(built, inputImage)
            /\ {leaf.region : leaf \in Leaves(lastCall.run.tree)}
                  = IF merges THEN {built.region}
                    ELSE {built.leftChild.region, built.rightChild.region}

\* the red and blue bands, kept apart
C13_Witness ==
    /\ Returned
    /\ inputImage = RedBlueBands
    /\ Cardinality(Leaves(lastCall.run.tree)) = 2

\* every node under a node, itself included
RECURSIVE Subtrees(_)
Subtrees(node) ==
    IF node = Null THEN {}
    ELSE {node} \cup Subtrees(node.leftChild) \cup Subtrees(node.rightChild)

StrictConfig == PruningConfig(Scale, 0)

\* a node as it is when pruneNodeRecursive decides about it: its children pruned
ChildrenPruned(node, config) ==
    [node EXCEPT !.leftChild = pruneNodeRecursive(node.leftChild, config),
                 !.rightChild = pruneNodeRecursive(node.rightChild, config)]

\* every leaf under a node has the node's colour: hue, saturation and
\* luminance equal, which is pruning distance 0
AllLeavesExact(node) ==
    \A leaf \in Leaves(node) :
        /\ leaf.averageColor.hue = node.averageColor.hue
        /\ leaf.averageColor.saturation = node.averageColor.saturation
        /\ leaf.averageColor.luminance = node.averageColor.luminance

StrictCall ==
    /\ lastCall.op = "compressImageConfig"
    /\ lastCall.config = StrictConfig
    /\ lastCall.run.outcome = "returned"

(* C14: pruneTree with (minimumSimilarityPercentage = 1.0,
   colorToleranceThreshold = 0) collapses an internal node only if every leaf
   of its already pruned subtree has colour distance exactly 0 to the node's
   averageColor; every other internal node keeps both children, and a tree
   with no such node is left unchanged. *)
C14_StrictConfig ==
    StrictCall =>
        LET internal == {n \in Subtrees(lastCall.run.built) : ~isLeaf(n)}
        IN  /\ \A n \in internal :
                  LET decided == ChildrenPruned(n, StrictConfig)
                      after == pruneNodeRecursive(n, StrictConfig)
                  IN  /\ isLeaf(after) => AllLeavesExact(decided)
                      /\ ~AllLeavesExact(decided) => after = decided
            /\ (\A n \in internal : ~AllLeavesExact(ChildrenPruned(n, StrictConfig)))
                  => lastCall.run.tree = lastCall.run.built

\* a strict call that collapsed some internal nodes and kept others
C14_Witness ==
    /\ StrictCall
    /\ 1 < Cardinality(Leaves(lastCall.run.tree))
    /\ Cardinality(Leaves(lastCall.run.tree)) < Cardinality(Leaves(lastCall.run.built))

\* the scalar the usage text and parseQuality give for each named level
DocumentedScalar(quality) ==
    CASE quality = "HIGHEST_QUALITY" -> Scale
      [] quality = "HIGH_QUALITY" -> (4 * Scale) \div 5
      [] quality = "MEDIUM_QUALITY" -> Scale \div 2
      [] quality = "LOW_QUALITY" -> Scale \div 5
      [] quality = "LOWEST_QUALITY" -> 0

(* C20: each named quality level is equivalent to its documented scalar
   (highest 1.0, high 0.8, medium 0.5, low 0.2, lowest 0.0): the level's
   configuration is the scalar's configuration, and compressing an image under
   the level gives the result of compressing it under the scalar. *)
C20_LabelEquivalence ==
    lastCall.op = "compressImageLevel" =>
        LET scalar == getConfigForQuality(DocumentedScalar(lastCall.quality))
        IN  /\ lastCall.config = scalar
            /\ lastCall.run \in performCompression(variant, inputImage, scalar)

\* a string is a decimal: an optional sign, then digits with at most one point
\* among them, at least one digit, and nothing else
IsDecimal(str) ==
    LET body == IF Len(str) >= 1 /\ str[1] = "-" THEN SubSeq(str, 2, Len(str)) ELSE str
    IN  /\ \A i \in 1..Len(body) : body[i] \in Digits \cup {"."}
        /\ \E i \in 1..Len(body) : body[i] \in Digits
        /\ Cardinality({i \in 1..Len(body) : body[i] = "."}) <= 1

\* parseQuality's answer for what it does not accept: 0.5 and a warning
IsFallback(result) ==
    /\ result.isFloat
    /\ 2 * result.floatValue[1] = result.floatValue[2]
    /\ result.warning

(* C19: parseQuality accepts an argument only if it is a decimal in [0.0, 1.0]
   or exactly one of the labels highest, high, medium, low, lowest; every
   other argument string gives the scalar quality 0.5 together with a
   warning. *)
C19_ParseQuality ==
    qualityCall.op = "parseQuality" =>
        \/ IsDecimal(qualityCall.qualityStr)
        \/ qualityCall.qualityStr \in Labels
        \/ IsFallback(qualityCall.result)

\* the run had no fatal error
NoFatalError == argc \in 3..4 /\ outputDirCreated /\ inputDirExists

(* C18: in the batch loop, when processing a file fails (load, compress or
   save error) the error is reported, the file is not counted as processed,
   every remaining file is still attempted, and the process exits with code 0;
   exit code 1 is returned only for a fatal error (wrong argument count,
   missing input directory). *)
C18_BatchLoop ==
    cliPc = "exited" =>
        /\ exitCode = 1 => ~NoFatalError
        /\ NoFatalError =>
              /\ exitCode = 0
              /\ pngFiles = directory
              /\ directory # <<>> => nextFile = Len(directory) + 1
              /\ processed = Cardinality({i \in 1..Len(directory) : directory[i] = "ok"})
              /\ \A i \in 1..Len(directory) :
                    directory[i] # "ok" <=> \E j \in 1..Len(errorsReported) : errorsReported[j] = i

\* a run that got over a failing file to a later good one
C18_Witness ==
    /\ cliPc = "exited"
    /\ exitCode = 0
    /\ processed >= 1
    /\ \E j \in 1..Len(errorsReported) : \E i \in 1..Len(pngFiles) :
          errorsReported[j] < i /\ pngFiles[i] = "ok"

(* C17: two compressImage calls running concurrently on distinct images share
   no mutable state: in no interleaving of their steps, ImageStatistics
   construction included, does one call write a memory location that the
   other call reads or writes. *)
C17_NoSharedMutableState ==
    \A a \in accesses : \A b \in accesses :
        ~(a.thread # b.thread /\ a.location = b.location /\ a.kind = "write")

-----------------------------------------------------------------------------
\* every cut of a region: after each row but the last, after each column but
\* the last
AllCuts(region) ==
    {HorizontalCut(region, splitY) :
        splitY \in region.upperLeft[2]..(region.lowerRight[2] - 1)}
    \cup {VerticalCut(region, splitX) :
             splitX \in region.upperLeft[1]..(region.lowerRight[1] - 1)}

(* C21: for every region that is split, findOptimalSplit returns one of the
   cuts of the region (every row and every column position), and its
   weighted child entropy is minimal among all of those cuts: the search is
   exhaustive by default. *)
C21_ExhaustiveMinimalCut ==
    lastCall.op = "findOptimalSplit" =>
        LET totalArea == getArea(lastCall.region)
            best == weightedEntropy(stats_, lastCall.splitResult, totalArea)
        IN  /\ lastCall.splitResult \in AllCuts(lastCall.region)
            /\ \A cut \in AllCuts(lastCall.region) :
                  best <= weightedEntropy(stats_, cut, totalArea)

\* the cuts a version of findOptimalSplit tries on a region
CandidateCuts(v, region) ==
    LET cuts == IF v = "main"
                THEN CutsOf(region, Range(region.upperLeft[2], region.lowerRight[2]),
                            Range(region.upperLeft[1], region.lowerRight[1]))
                ELSE CutsOf(region,
                            getSplitCandidates(region.upperLeft[2], region.lowerRight[2],
                                               MaxCandidates),
                            getSplitCandidates(region.upperLeft[1], region.lowerRight[1],
                                               MaxCandidates))
    IN  {cuts[i] : i \in 1..Len(cuts)}

\* a cut is horizontal if its second part starts below its first
IsHorizontal(cut) == cut[2].upperLeft[2] > cut[1].upperLeft[2]

\* the coordinate of a cut: the last row or column of its first part
CutCoordinate(cut) ==
    IF IsHorizontal(cut) THEN cut[1].lowerRight[2] ELSE cut[1].lowerRight[1]

\* the documented order: horizontal before vertical, then ascending coordinate
CutBefore(a, b) ==
    \/ IsHorizontal(a) /\ ~IsHorizontal(b)
    \/ IsHorizontal(a) = IsHorizontal(b) /\ CutCoordinate(a) < CutCoordinate(b)

(* C22: among the cuts findOptimalSplit tries on a region, it returns one of
   minimal weighted entropy, and of several minimal ones the first in the
   order horizontal before vertical, ascending coordinate. *)
C22_TieBreak ==
    lastCall.op = "findOptimalSplit" =>
        LET totalArea == getArea(lastCall.region)
            tried == CandidateCuts(variant, lastCall.region)
            least(cut) == \A other \in tried :
                              weightedEntropy(stats_, cut, totalArea)
                                  <= weightedEntropy(stats_, other, totalArea)
        IN  /\ lastCall.splitResult \in tried
            /\ least(lastCall.splitResult)
            /\ \A cut \in tried :
                  least(cut) /\ cut # lastCall.splitResult
                      => CutBefore(lastCall.splitResult, cut)

\* a rectangle with at least one pixel inside another
NonEmptyWithin(part, region) ==
    /\ region.upperLeft[1] <= part.upperLeft[1] /\ part.upperLeft[1] <= part.lowerRight[1]
    /\ part.lowerRight[1] <= region.lowerRight[1]
    /\ region.upperLeft[2] <= part.upperLeft[2] /\ part.upperLeft[2] <= part.lowerRight[2]
    /\ part.lowerRight[2] <= region.lowerRight[2]

(* C30: in the sampling version, getSplitCandidates(start, end) with
   start < end returns between 1 and 8 positions, all in [start, end); every
   cut findOptimalSplit tries has two non-empty parts inside the region, and
   the pair it returns is not the pair of (0,0,0,0) rectangles it starts from. *)
C30_SplitCandidates ==
    /\ lastCall.op = "getSplitCandidates" =>
          /\ Len(lastCall.candidates) >= 1
          /\ Len(lastCall.candidates) <= 8
          /\ \A i \in 1..Len(lastCall.candidates) :
                lastCall.start <= lastCall.candidates[i] /\ lastCall.candidates[i] < lastCall.end
    /\ (lastCall.op = "findOptimalSplit" /\ variant = "alt") =>
          /\ \A cut \in CandidateCuts("alt", lastCall.region) :
                /\ NonEmptyWithin(cut[1], lastCall.region)
                /\ NonEmptyWithin(cut[2], lastCall.region)
          /\ lastCall.splitResult # <<NoSplit.bestLeftRegion, NoSplit.bestRightRegion>>
          /\ NonEmptyWithin(lastCall.splitResult[1], lastCall.region)
          /\ NonEmptyWithin(lastCall.splitResult[2], lastCall.region)

\* a range longer than maxCandidates was sampled, with the last position added
\* by the step loop
C30_Witness ==
    /\ lastCall.op = "getSplitCandidates"
    /\ lastCall.end - lastCall.start > MaxCandidates
    /\ Len(lastCall.candidates) = MaxCandidates

-----------------------------------------------------------------------------
(* C25: getConfigForQuality clamps its argument to [0, 1]: below 0 it gives
   the configuration of 0.0, above 1 that of 1.0, and for every argument
   0.85 <= minimumSimilarityPercentage <= 0.995 and
   0.005 <= colorToleranceThreshold <= 0.30. *)
C25_QualityClamped ==
    qualityCall.op = "getConfigForQuality" =>
        /\ qualityCall.quality < 0 =>
              qualityCall.config = PruningConfig((85 * Scale) \div 100, (30 * Scale) \div 100)
        /\ qualityCall.quality > Scale =>
              qualityCall.config = PruningConfig((995 * Scale) \div 1000, (5 * Scale) \div 1000)
        /\ (85 * Scale) \div 100 <= qualityCall.config.minimumSimilarityPercentage
        /\ qualityCall.config.minimumSimilarityPercentage <= (995 * Scale) \div 1000
        /\ (5 * Scale) \div 1000 <= qualityCall.config.colorToleranceThreshold
        /\ qualityCall.config.colorToleranceThreshold <= (30 * Scale) \div 100

\* a call with a score above 1
C25_Witness ==
    /\ qualityCall.op = "getConfigForQuality"
    /\ qualityCall.quality > Scale

-----------------------------------------------------------------------------
\* the rule of the specification applied bottom-up to a subtree, on sets of
\* leaves: the leaves left under a node are those left under its two
\* children, unless K/T of them (by area) lie within the tolerance of the
\* node's colour, in which case the node itself is the one leaf left
Collapses(node, below, config) ==
    LET T == SumAreas(below)
        K == SumAreas({l \in below :
                          calculateColorDistance(l.averageColor, node.averageColor)
                              <= DistancePerScale * config.colorToleranceThreshold})
    IN  T > 0 /\ K * Scale >= config.minimumSimilarityPercentage * T

RECURSIVE LeavesAfterPrune(_, _)
LeavesAfterPrune(node, config) ==
    IF isLeaf(node) THEN {node}
    ELSE LET below == LeavesAfterPrune(node.leftChild, config)
                          \cup LeavesAfterPrune(node.rightChild, config)
         IN  IF Collapses(node, below, config)
             THEN {TreeNode(node.region, node.averageColor)}
             ELSE below

\* the tree was just constructed or pruned: each tree a behaviour goes through
\* is the tree of such a state (no other operation changes it)
TreeJustMade == lastCall.op \in {"construct", "pruneTree"}

(* C23: pruneTree decides about an internal node after both of its children
   have been pruned, over the leaves then left in its subtree: the node is
   collapsed if and only if their total area T is positive and the area K of
   those within colorToleranceThreshold of the node's averageColor has
   K/T >= minimumSimilarityPercentage.  Stated of what pruneNodeRecursive
   makes of every subtree of every tree pruneTree is called on: its leaves
   are those this rule leaves (the node alone if and only if the rule
   collapses it, the leaves of its pruned children otherwise). *)
C23_PostOrderRule ==
    TreeJustMade =>
        \A config \in PruneConfigs : \A n \in Subtrees(rootNode_) :
            Leaves(pruneNodeRecursive(n, config)) = LeavesAfterPrune(n, config)

\* a call collapsed a node below the root and kept the root split: one
\* decision said yes, a later one, over the merged leaf, said no
C23_Witness ==
    /\ PruneCollapsed
    /\ ~isLeaf(rootNode_)
    /\ \E n \in NodesAt(rootNode_, <<>>) : \E b \in NodesAt(builtTree[variant, inputImage], <<>>) :
          n.path = b.path /\ n.leaf /\ ~b.leaf

(* C24: pruneTree changes child links only: the image dimensions stay, and
   every node of the tree after the call is a node of the tree before it and
   of the tree as constructed, at the same position, with the same rectangle
   and the same averageColor (a collapsed node keeps the colour computed at
   construction). *)
C24_PruneFrame ==
    [][lastCall'.op = "pruneTree" =>
          /\ imageWidth_' = imageWidth_
          /\ imageHeight_' = imageHeight_
          /\ inputImage' = inputImage
          /\ \A m \in NodesAt(rootNode_', <<>>) :
                /\ \E n \in NodesAt(rootNode_, <<>>) :
                      n.path = m.path /\ n.region = m.region /\ n.averageColor = m.averageColor
                /\ \E b \in NodesAt(builtTree[variant, inputImage], <<>>) :
                      b.path = m.path /\ b.region = m.region /\ b.averageColor = m.averageColor]_vars

\* a call collapsed a node whose colour is that of neither of its children
C24_Witness ==
    /\ PruneCollapsed
    /\ \E b \in Subtrees(builtTree[variant, inputImage]) :
          /\ ~isLeaf(b)
          /\ b.averageColor # b.leftChild.averageColor
          /\ b.averageColor # b.rightChild.averageColor
          /\ TreeNode(b.region, b.averageColor) \in Leaves(rootNode_)

(* C26: pruning is idempotent for a fixed configuration: from the tree of
   every reachable state, built or already pruned, two pruneTree(c) calls
   in a row leave the same tree, with the same set of leaves, as one. *)
C26_PruneIdempotent ==
    TreeJustMade => \A config \in PruneConfigs :
        LET once == pruneTree(rootNode_, config)
            twice == pruneTree(once, config)
        IN  /\ twice = once
            /\ Leaves(twice) = Leaves(once)

\* a call collapsed a node and left an internal node over two leaves, one of
\* them merged: the second call decides again about that node
C26_Witness ==
    /\ PruneCollapsed
    /\ \E n \in Subtrees(rootNode_) :
          /\ ~isLeaf(n)
          /\ isLeaf(n.leftChild) /\ isLeaf(n.rightChild)
          /\ getArea(n.region) >= 3

-----------------------------------------------------------------------------
\* the region of a call lies in the image and has at least one pixel
PositiveArea(region) ==
    /\ 0 <= region.upperLeft[1] /\ region.upperLeft[1] <= region.lowerRight[1]
    /\ region.lowerRight[1] < imageWidth_
    /\ 0 <= region.upperLeft[2] /\ region.upperLeft[2] <= region.lowerRight[2]
    /\ region.lowerRight[2] < imageHeight_

\* every recursive call pending is on a rectangle of positive area, smaller
\* than that of the call that makes it
CallsShrink ==
    \A i \in 1..Len(callStack) :
        /\ PositiveArea(callStack[i].region)
        /\ callStack[i].parent # Null =>
              getArea(callStack[i].region) < getArea(callStack[i].parent)

\* the constructor has returned
Built == callStack = <<>>

(* C28: the construction of the tree of a non-empty W x H image terminates:
   every recursive call of buildTreeRecursive is on a rectangle of positive
   area strictly smaller than its caller's, the leaves made never exceed
   W*H, and the last call returns (with the leaves the built tree has). *)
C28_BuildTerminates ==
    /\ []CallsShrink
    /\ [](nodesMade.leaves <= imageWidth_ * imageHeight_)
    /\ [](Built => nodesMade.leaves = countLeafNodesRecursive(builtTree[variant, inputImage]))
    /\ <>Built

\* the construction of a tree of several leaves has returned, the last call
\* on a single pixel
C28_Witness ==
    /\ Built
    /\ nodesMade.leaves >= 3
    /\ nodesMade.calls = 2 * nodesMade.leaves - 1

-----------------------------------------------------------------------------
\* the nodes of a tree object, by address
NodesOf(object) == Owned(heap, trees[object].rootNode_)

\* the tree of a tree object in a heap, as nested records
TreeOf(h, object) == nodeAt(h, trees[object].rootNode_)

(* C27: in every state reached by building a tree from a non-empty image,
   copying it and pruning the trees any number of times, every node of every
   tree has no child or two children, the rectangles of two children are the
   two parts of one horizontal or vertical cut of the parent's rectangle,
   and a node of one pixel is a leaf. *)
C27_NodeShape ==
    \A object \in DOMAIN trees : \A a \in NodesOf(object) :
        LET node == heap[a]
        IN  /\ (node.leftChild = nullptr) <=> (node.rightChild = nullptr)
            /\ node.leftChild # nullptr =>
                  /\ node.leftChild \in DOMAIN heap
                  /\ node.rightChild \in DOMAIN heap
                  /\ <<heap[node.leftChild].region, heap[node.rightChild].region>>
                        \in AllCuts(node.region)
            /\ getArea(node.region) = 1 => node.leftChild = nullptr

\* the copy has been pruned and keeps a split root over a merged leaf
C27_Witness ==
    /\ lastCall.op = "pruneTree"
    /\ lastCall.object = "copy"
    /\ "copy" \in DOMAIN trees
    /\ heap[trees["copy"].rootNode_].leftChild # nullptr
    /\ \E a \in NodesOf("copy") :
          heap[a].leftChild = nullptr /\ getArea(heap[a].region) >= 2

\* no node belongs to two trees, and every pointer leads to a node alive
Independent ==
    /\ \A t \in DOMAIN trees : \A u \in DOMAIN trees :
          t # u => NodesOf(t) \cap NodesOf(u) = {}
    /\ \A t \in DOMAIN trees : trees[t].rootNode_ \in DOMAIN heap
    /\ \A a \in DOMAIN heap :
          /\ heap[a].leftChild \in DOMAIN heap \cup {nullptr}
          /\ heap[a].rightChild \in DOMAIN heap \cup {nullptr}

(* C29: a tree made by copy construction or copy assignment is independent
   of its source: the two share no node, and a pruneTree call on one of them
   leaves the other's nodes, leaf count and rendered image as they were. *)
C29_CopyIndependent ==
    /\ []Independent
    /\ [][\A t \in DOMAIN trees :
             (lastCall'.op = "pruneTree" /\ lastCall'.object # t) =>
                LET before == TreeOf(heap, t)
                    after == TreeOf(heap', t)
                    width == trees[t].imageWidth_
                    height == trees[t].imageHeight_
                IN  /\ after = before
                    /\ countLeafNodesRecursive(after) = countLeafNodesRecursive(before)
                    /\ renderToImage(width, height, after).image
                          = renderToImage(width, height, before).image]_vars

\* a pruneTree call on one of the two trees has left them different: the one
\* pruned has fewer leaves than the other
C29_Witness ==
    /\ lastCall.op = "pruneTree"
    /\ DOMAIN trees = Objects
    /\ \E t \in Objects : \E u \in Objects :
          /\ lastCall.object = t
          /\ u # t
          /\ countLeafNodesRecursive(TreeOf(heap, t))
                < countLeafNodesRecursive(TreeOf(heap, u))

====
